---- MODULE Spec2Model ----
(***************************************************************************)
(* A model of the navigation core of Agent_RED (src/src/pathfinding):      *)
(* the tile model (tiles.py), the line-of-sight engine (trainer_vision.py),*)
(* the map graph (graph.py), the per-map A* planner (astar.py) and the     *)
(* region router (cross_map.py).                                           *)
(*                                                                         *)
(* Conventions.                                                            *)
(*  - A Python float cost is carried as an integer number of HALVES, so    *)
(*    that the program's 0.5 and 1.5 are integers: 1.0 is 2, 100.0 is 200. *)
(*    The Manhattan heuristic is scaled the same way.                      *)
(*  - An optional value (int | None) is a set: None is {}, v is {v}.       *)
(*  - A map id is a sequence of one-character strings, so that the         *)
(*    canonicalisation replace("_", "").upper() is computed, not assumed.  *)
(*  - A Node or a position is the tuple <<x, y>>.                          *)
(***************************************************************************)
EXTENDS Integers, Sequences, FiniteSets, TLC

(***************************************************************************)
(* Optional values and small helpers                                       *)
(***************************************************************************)
None == {}

Some(v) == {v}

Val(o) == CHOOSE v \in o : TRUE

\* Python truthiness of an int | None: None and 0 are falsy.
Truthy(o) == o # None /\ o # Some(0)

\* Python `a or b` for a : int | None and b : int.
PyOr(o, b) == IF Truthy(o) THEN Val(o) ELSE b

Abs(n) == IF n < 0 THEN 0 - n ELSE n

\* Python floor division by two (//), for any integer.
FloorHalf(n) == IF n >= 0 THEN n \div 2 ELSE 0 - ((1 - n) \div 2)

RECURSIVE SumSeq(_)
SumSeq(s) == IF s = <<>> THEN 0 ELSE Head(s) + SumSeq(Tail(s))

Range(s) == {s[i] : i \in 1..Len(s)}

(***************************************************************************)
(* tiles.py                                                                *)
(***************************************************************************)
TileType ==
    {"BLOCKED", "WALKABLE", "GRASS", "WATER", "CUT_TREE", "STRENGTH_BOULDER",
     "LEDGE_DOWN", "LEDGE_LEFT", "LEDGE_RIGHT", "WARP", "TRAINER_VISION"}

\* float("inf"): larger than every finite cost the model can build.
inf == 1000000

\* TileWeights(): the dataclass defaults, in halves.
TileWeights ==
    [walkable |-> 2, grass |-> 6, water |-> 3, cut_tree |-> 4,
     strength_boulder |-> 6, trainer_adjacent |-> 200]

avoid_encounters == [TileWeights EXCEPT !.grass = 10]

seek_encounters == [TileWeights EXCEPT !.grass = 1]

speed_run == [TileWeights EXCEPT !.grass = 2, !.trainer_adjacent = 2000]

BASE_TILE_WEIGHTS ==
    [t \in TileType |->
        CASE t = "BLOCKED" -> inf
          [] t = "WALKABLE" -> 2
          [] t = "GRASS" -> 6
          [] t = "WATER" -> inf
          [] t = "CUT_TREE" -> inf
          [] t = "STRENGTH_BOULDER" -> inf
          [] t = "LEDGE_DOWN" -> 2
          [] t = "LEDGE_LEFT" -> 2
          [] t = "LEDGE_RIGHT" -> 2
          [] t = "WARP" -> 2
          [] t = "TRAINER_VISION" -> 200]

\* str.upper() on the HM and direction tokens the model passes around.
UpperToken(s) ==
    CASE s = "cut" -> "CUT"
      [] s = "surf" -> "SURF"
      [] s = "strength" -> "STRENGTH"
      [] s = "up" -> "UP"
      [] s = "down" -> "DOWN"
      [] s = "left" -> "LEFT"
      [] s = "right" -> "RIGHT"
      [] OTHER -> s

\* set(hm.upper() for hm in (hms_available or []))
UpperHMs(hms_available) == {UpperToken(hms_available[i]) : i \in 1..Len(hms_available)}

\* get_tile_weight with the vision branch missing: a vision tile takes the
\* base weight of a walkable tile.
get_tile_weight_no_vision(tile_type, hms_available, w) ==
    LET hms == UpperHMs(hms_available) IN
    CASE tile_type = "WATER" -> IF "SURF" \in hms THEN w.water ELSE inf
      [] tile_type = "CUT_TREE" -> IF "CUT" \in hms THEN w.cut_tree ELSE inf
      [] tile_type = "STRENGTH_BOULDER" ->
            IF "STRENGTH" \in hms THEN w.strength_boulder ELSE inf
      [] tile_type = "GRASS" -> w.grass
      [] tile_type = "TRAINER_VISION" -> BASE_TILE_WEIGHTS["WALKABLE"]
      [] OTHER -> BASE_TILE_WEIGHTS[tile_type]

get_tile_weight(tile_type, hms_available, w) ==
    LET hms == UpperHMs(hms_available) IN
    CASE tile_type = "WATER" -> IF "SURF" \in hms THEN w.water ELSE inf
      [] tile_type = "CUT_TREE" -> IF "CUT" \in hms THEN w.cut_tree ELSE inf
      [] tile_type = "STRENGTH_BOULDER" ->
            IF "STRENGTH" \in hms THEN w.strength_boulder ELSE inf
      [] tile_type = "GRASS" -> w.grass
      [] tile_type = "TRAINER_VISION" -> w.trainer_adjacent
      [] OTHER -> BASE_TILE_WEIGHTS[tile_type]

can_traverse_ledge(ledge_type, direction) ==
    LET d == UpperToken(direction) IN
    CASE ledge_type = "LEDGE_DOWN" -> d = "DOWN"
      [] ledge_type = "LEDGE_LEFT" -> d = "LEFT"
      [] ledge_type = "LEDGE_RIGHT" -> d = "RIGHT"
      [] OTHER -> FALSE

is_passable(tile_type, direction, hms_available) ==
    LET hms == UpperHMs(hms_available) IN
    CASE tile_type = "BLOCKED" -> FALSE
      [] tile_type \in {"LEDGE_DOWN", "LEDGE_LEFT", "LEDGE_RIGHT"} ->
            can_traverse_ledge(tile_type, direction)
      [] tile_type = "WATER" -> "SURF" \in hms
      [] tile_type = "CUT_TREE" -> "CUT" \in hms
      [] tile_type = "STRENGTH_BOULDER" -> "STRENGTH" \in hms
      [] OTHER -> TRUE

(***************************************************************************)
(* trainer_vision.py                                                       *)
(***************************************************************************)
DIRECTION_VECTORS ==
    [d \in {"UP", "DOWN", "LEFT", "RIGHT"} |->
        CASE d = "UP" -> <<0, -1>>
          [] d = "DOWN" -> <<0, 1>>
          [] d = "LEFT" -> <<-1, 0>>
          [] d = "RIGHT" -> <<1, 0>>]

DEFAULT_VISION_RANGE == 4

\* The value of a missing "trainer_id" key in a trainer dict.
NoId == <<>>

\* Trainer.from_dict(data, index): the id defaults to f"trainer_{index}"
\* (index counts from 0), the facing is upper-cased and defaults to DOWN.
TrainerFromDict(data, index) ==
    LET f == UpperToken(data.facing) IN
    [trainer_id |-> IF data.trainer_id = NoId THEN <<"trainer", index>>
                    ELSE data.trainer_id,
     x |-> data.x,
     y |-> data.y,
     facing |-> IF f \in DOMAIN DIRECTION_VECTORS THEN f ELSE "DOWN",
     vision_range |-> data.vision_range]

\* collision_check = None: `if collision_check and collision_check(x, y)`
\* is never true.  A collision check is modelled by the set of tiles it
\* reports blocked.
NoCollisionCheck == {}

\* calculate_vision_zone over get_vision_tiles: walk from the trainer one
\* tile at a time, `left` more steps; the generator stops at the first tile
\* the collision check reports, the consumer at the first tile outside the
\* bounds (a bound of 0 is not checked).
\* A walk that leaves a reported tile out and goes on behind it.
RECURSIVE VisionWalk_through(_, _, _, _, _, _, _, _)
VisionWalk_through(x, y, dx, dy, left, width, height, collision_check) ==
    IF left <= 0 THEN {}
    ELSE LET nx == x + dx
             ny == y + dy
         IN IF width > 0 /\ (nx < 0 \/ nx >= width) THEN {}
            ELSE IF height > 0 /\ (ny < 0 \/ ny >= height) THEN {}
            ELSE ({<<nx, ny>>} \ collision_check)
                 \cup VisionWalk_through(nx, ny, dx, dy, left - 1, width,
                                         height, collision_check)

RECURSIVE VisionWalk(_, _, _, _, _, _, _, _)
VisionWalk(x, y, dx, dy, left, width, height, collision_check) ==
    IF left <= 0 THEN {}
    ELSE LET nx == x + dx
             ny == y + dy
         IN IF <<nx, ny>> \in collision_check THEN {}
            ELSE IF width > 0 /\ (nx < 0 \/ nx >= width) THEN {}
            ELSE IF height > 0 /\ (ny < 0 \/ ny >= height) THEN {}
            ELSE {<<nx, ny>>}
                 \cup VisionWalk(nx, ny, dx, dy, left - 1, width, height,
                                 collision_check)

calculate_vision_zone(trainer, width, height, collision_check) ==
    LET v == DIRECTION_VECTORS[trainer.facing] IN
    VisionWalk(trainer.x, trainer.y, v[1], v[2], trainer.vision_range,
               width, height, collision_check)

\* The zones of every trainer of the list, defeated or not.
get_all_trainer_zones_keep_defeated(trainers, defeated_trainers, width, height, collision_check) ==
    UNION {calculate_vision_zone(TrainerFromDict(trainers[i], i - 1),
                                 width, height, collision_check)
           : i \in 1..Len(trainers)}

get_all_trainer_zones(trainers, defeated_trainers, width, height, collision_check) ==
    UNION {LET trainer == TrainerFromDict(trainers[i], i - 1) IN
           IF trainer.trainer_id \in defeated_trainers THEN {}
           ELSE calculate_vision_zone(trainer, width, height, collision_check)
           : i \in 1..Len(trainers)}

(***************************************************************************)
(* graph.py                                                                *)
(***************************************************************************)
\* MapGraph.DIRECTIONS, in the order neighbors() walks them.
DIRECTIONS ==
    <<[dx |-> 0, dy |-> -1, name |-> "UP"],
      [dx |-> 0, dy |-> 1, name |-> "DOWN"],
      [dx |-> -1, dy |-> 0, name |-> "LEFT"],
      [dx |-> 1, dy |-> 0, name |-> "RIGHT"]>>

\* Edge.requires_hm = None
NoHM == ""

\* MapGraph._data of a map whose JSON file does not exist: every property
\* falls back to its .get() default.
EmptyData ==
    [width |-> 0, height |-> 0, connections |-> <<>>, warps |-> <<>>,
     trainers |-> <<>>, tile_classes |-> {}]

\* A MapGraph is the record [map_id, data, trainer_zones].
width(graph) == graph.data.width

height(graph) == graph.data.height

\* in_bounds with the upper comparisons off by one (<= for <).
in_bounds_inclusive(graph, x, y) ==
    0 <= x /\ x <= width(graph) /\ 0 <= y /\ y <= height(graph)

\* in_bounds with the lower comparisons strict (< for <=).
in_bounds_strict(graph, x, y) ==
    0 < x /\ x < width(graph) /\ 0 < y /\ y < height(graph)

\* in_bounds without the lower comparisons (0 <= x, 0 <= y).
in_bounds_no_floor(graph, x, y) == x < width(graph) /\ y < height(graph)

in_bounds(graph, x, y) ==
    0 <= x /\ x < width(graph) /\ 0 <= y /\ y < height(graph)

set_trainer_zones(graph, zones) == [graph EXCEPT !.trainer_zones = zones]

\* There is no per-tile data: every in-bounds tile outside the installed
\* vision zones is WALKABLE.
get_tile_type(graph, x, y) ==
    IF ~in_bounds(graph, x, y) THEN "BLOCKED"
    ELSE IF <<x, y>> \in graph.trainer_zones THEN "TRAINER_VISION"
    ELSE "WALKABLE"

\* One turn of the loop of neighbors(): the edge for DIRECTIONS[k], with
\* valid = FALSE where the loop executes `continue`.
NeighborCandidate(graph, node, k, hms_available, weights) ==
    LET d == DIRECTIONS[k]
        nx == node[1] + d.dx
        ny == node[2] + d.dy
        tile_type == get_tile_type(graph, nx, ny)
        cost == get_tile_weight(tile_type, hms_available, weights)
    IN [destination |-> <<nx, ny>>,
        cost |-> cost,
        direction |-> d.name,
        requires_hm |-> CASE tile_type = "WATER" -> "SURF"
                          [] tile_type = "CUT_TREE" -> "CUT"
                          [] tile_type = "STRENGTH_BOULDER" -> "STRENGTH"
                          [] OTHER -> NoHM,
        valid |-> /\ in_bounds(graph, nx, ny)
                  /\ is_passable(tile_type, d.name, hms_available)
                  /\ cost # inf]

\* The edges neighbors() yields, in order.
neighbors(graph, node, hms_available, weights) ==
    SelectSeq([k \in 1..4 |-> NeighborCandidate(graph, node, k, hms_available, weights)],
              LAMBDA e : e.valid)

(***************************************************************************)
(* astar.py                                                                *)
(***************************************************************************)
\* A Python dict is a function on the set of its keys.
EmptyDict == <<>>

Put(dict, key, value) ==
    [k \in DOMAIN dict \cup {key} |-> IF k = key THEN value ELSE dict[k]]

\* list(a_set): the elements in the order this process's hashing gives,
\* `order` being a sequence that lists every possible element once.
ListOfSet(S, order) == SelectSeq(order, LAMBDA e : e \in S)

heuristic(a, b) == 2 * (Abs(a[1] - b[1]) + Abs(a[2] - b[2]))

\* reconstruct_path: follow came_from back from `current`; the result runs
\* from the start to `current`.  `fuel` bounds the walk: the Python loop
\* does not end on a cyclic came_from, and then the walk here is cut short.
RECURSIVE ChainBack(_, _, _)
ChainBack(came_from, current, fuel) ==
    IF current \in DOMAIN came_from /\ fuel > 0
    THEN Append(ChainBack(came_from, came_from[current], fuel - 1), current)
    ELSE <<current>>

reconstruct_path(came_from, current) ==
    ChainBack(came_from, current, Cardinality(DOMAIN came_from))

\* Whether the loop of reconstruct_path ends: the chain leaves came_from.
ReconstructTerminates(came_from, current) ==
    Head(reconstruct_path(came_from, current)) \notin DOMAIN came_from

\* The move path_to_moves appends for one step (none when the nodes agree).
MoveOf(prev, curr) ==
    LET dx == curr[1] - prev[1]
        dy == curr[2] - prev[2]
    IN IF dy < 0 THEN <<"UP">>
       ELSE IF dy > 0 THEN <<"DOWN">>
       ELSE IF dx < 0 THEN <<"LEFT">>
       ELSE IF dx > 0 THEN <<"RIGHT">>
       ELSE <<>>

RECURSIVE MovesFrom(_, _)
MovesFrom(path, i) ==
    IF i > Len(path) THEN <<>>
    ELSE MoveOf(path[i - 1], path[i]) \o MovesFrom(path, i + 1)

path_to_moves(path) == MovesFrom(path, 2)

\* PathResult(success=False, nodes_explored=n)
PathFailure(n) ==
    [success |-> FALSE, path |-> <<>>, moves |-> <<>>, total_cost |-> 0,
     hms_required |-> <<>>, nodes_explored |-> n]

\* astar.py:92, the default of max_iterations
DEFAULT_MAX_ITERATIONS == 10000

\* The locals of astar() after line 133, just before the main loop.
AstarFrame(start, goal, hms_available, weights, max_iterations) ==
    [start |-> start,
     goal |-> goal,
     hms_available |-> hms_available,
     weights |-> weights,
     max_iterations |-> max_iterations,
     counter |-> 0,
     open_set |-> {<<0, 0, start>>},
     open_set_lookup |-> {start},
     came_from |-> EmptyDict,
     g_score |-> Put(EmptyDict, start, 0),
     f_score |-> Put(EmptyDict, start, heuristic(start, goal)),
     hm_used_at |-> EmptyDict,
     iterations |-> 0]

\* heappop: the least (f, counter, node) entry; counters are unique.
HeapMin(open_set) ==
    CHOOSE e \in open_set :
        \A o \in open_set :
            e[1] < o[1] \/ (e[1] = o[1] /\ e[2] <= o[2])

\* Lines 178-182: the neighbour is pushed only when it is not in the open set.
PushIfAbsent(fr, neighbor) ==
    IF neighbor \notin fr.open_set_lookup
    THEN [fr EXCEPT !.counter = fr.counter + 1,
                    !.open_set = fr.open_set
                        \cup {<<fr.f_score[neighbor], fr.counter + 1, neighbor>>},
                    !.open_set_lookup = fr.open_set_lookup \cup {neighbor}]
    ELSE fr

\* Lines 165-182: the body of the loop over the edges of `current`.
Relax(fr, current, edge) ==
    LET neighbor == edge.destination
        tentative_g == fr.g_score[current] + edge.cost
        known == IF neighbor \in DOMAIN fr.g_score THEN fr.g_score[neighbor] ELSE inf
    IN IF tentative_g < known
       THEN PushIfAbsent(
               [fr EXCEPT !.came_from = Put(fr.came_from, neighbor, current),
                          !.g_score = Put(fr.g_score, neighbor, tentative_g),
                          !.f_score = Put(fr.f_score, neighbor,
                                          tentative_g + heuristic(neighbor, fr.goal)),
                          !.hm_used_at = IF edge.requires_hm # NoHM
                                         THEN Put(fr.hm_used_at, neighbor, edge.requires_hm)
                                         ELSE fr.hm_used_at],
               neighbor)
       ELSE fr

RECURSIVE RelaxAll(_, _, _, _)
RelaxAll(fr, current, edges, k) ==
    IF k > Len(edges) THEN fr
    ELSE RelaxAll(Relax(fr, current, edges[k]), current, edges, k + 1)

\* Lines 137-141: one turn of the main loop up to the goal test.
AstarPop(fr) ==
    LET e == HeapMin(fr.open_set) IN
    [fr EXCEPT !.iterations = fr.iterations + 1,
               !.open_set = fr.open_set \ {e},
               !.open_set_lookup = fr.open_set_lookup \ {e[3]}]

\* A result whose total_cost counts the tiles of the path, two halves each.
AstarSuccess_step_count(fr, current, hm_order) ==
    LET path == reconstruct_path(fr.came_from, current) IN
    [success |-> TRUE,
     path |-> path,
     moves |-> path_to_moves(path),
     total_cost |-> 2 * Len(path),
     hms_required |->
        ListOfSet({fr.hm_used_at[n] : n \in Range(path) \cap DOMAIN fr.hm_used_at},
                  hm_order),
     nodes_explored |-> fr.iterations]

\* Lines 144-161: the result built when the goal is popped.
AstarSuccess(fr, current, hm_order) ==
    LET path == reconstruct_path(fr.came_from, current) IN
    [success |-> TRUE,
     path |-> path,
     moves |-> path_to_moves(path),
     total_cost |-> fr.g_score[current],
     hms_required |->
        ListOfSet({fr.hm_used_at[n] : n \in Range(path) \cap DOMAIN fr.hm_used_at},
                  hm_order),
     nodes_explored |-> fr.iterations]

\* The loop condition with <= for <: one more turn at the cap.
AstarRunning_inclusive(fr) == fr.open_set # {} /\ fr.iterations <= fr.max_iterations

\* Whether the main loop takes another turn (line 136).
AstarRunning(fr) == fr.open_set # {} /\ fr.iterations < fr.max_iterations

(***************************************************************************)
(* The map files under data/maps that the router is run against            *)
(***************************************************************************)
\* Canonical ids of the maps of the atlas, and one id no file exists for.
PT == <<"P", "T">>

R1 == <<"R", "1">>

R2 == <<"R", "2">>

VC == <<"V", "C">>

SZ == <<"S", "Z">>

LZ == <<"L", "Z">>

CT == <<"C", "T">>

G7 == <<"G", "7">>

XX == <<"X", "X">>

MA == <<"M", "A">>

MB == <<"M", "B">>

MC == <<"M", "C">>

MD == <<"M", "D">>

NoTrainers == <<>>

Trainer(id, x, y, facing, vision_range) ==
    [trainer_id |-> id, x |-> x, y |-> y, facing |-> facing,
     vision_range |-> vision_range]

Connection(direction, map, offset) ==
    [direction |-> direction, map |-> map, offset |-> offset]

Warp(x, y, destination_map, destination_warp_id) ==
    [x |-> x, y |-> y, destination_map |-> destination_map,
     destination_warp_id |-> destination_warp_id]

\* A key of a map file that MapGraph loads into _data and never reads: the
\* class of a tile of the game's map.
TileClass(x, y, class) == [x |-> x, y |-> y, class |-> class]

MapFile(w, h, connections, warps, trainers, tile_classes) ==
    [width |-> w, height |-> h, connections |-> connections, warps |-> warps,
     trainers |-> trainers, tile_classes |-> tile_classes]

\* The JSON descriptors, keyed by file name without ".json".  Connections
\* are kept in file order (a Python dict keeps insertion order).  PT reaches
\* VC in two hops either through R1 (connections) or through R2 (warps).
\* On LZ, 52 tiles high, column 1 is watched from the bottom row up, and the
\* way round the bottom takes 102 steps from (0, 1) to (2, 1).
MapFiles ==
    (PT :> MapFile(3, 3, <<Connection("NORTH", <<"R", "_", "1">>, 0)>>,
                   <<Warp(2, 2, R2, 0)>>,
                   <<Trainer(NoId, 1, 0, "DOWN", DEFAULT_VISION_RANGE)>>, {}))
    @@ (R1 :> MapFile(3, 2, <<Connection("SOUTH", PT, 1), Connection("NORTH", VC, 0)>>,
                      <<>>,
                      <<Trainer(<<"BUGCATCHER", 1>>, 0, 0, "right", 1)>>, {}))
    @@ (R2 :> MapFile(2, 2, <<>>, <<Warp(0, 0, PT, 0), Warp(1, 1, VC, 0)>>,
                      NoTrainers, {}))
    @@ (VC :> MapFile(3, 3, <<Connection("SOUTH", R1, 0)>>, <<Warp(0, 1, R2, 1)>>,
                      NoTrainers, {}))
    @@ (SZ :> MapFile(3, 5, <<>>, <<>>,
                      <<Trainer(<<"LASS", 1>>, 1, 1, "RIGHT", 1),
                        Trainer(<<"LASS", 2>>, 2, 1, "DOWN", 3)>>, {}))
    @@ (LZ :> MapFile(3, 52, <<>>, <<>>,
                      <<Trainer(<<"GUARD", 1>>, 1, 51, "UP", 51)>>, {}))
    @@ (CT :> MapFile(3, 2, <<>>, <<>>, NoTrainers,
                      {TileClass(1, 0, "CUT_TREE"), TileClass(1, 1, "CUT_TREE")}))
    @@ (G7 :> MapFile(7, 5, <<>>, <<>>, NoTrainers, {}))
    @@ (MA :> MapFile(2, 2, <<Connection("EAST", MB, 0), Connection("NORTH", MD, 0)>>,
                      <<Warp(0, 0, MB, 0)>>, NoTrainers, {}))
    @@ (MB :> MapFile(2, 2, <<Connection("WEST", MA, 3), Connection("NORTH", MC, 0)>>,
                      <<Warp(1, 1, MA, 0)>>, NoTrainers, {}))
    @@ (MC :> MapFile(2, 2, <<Connection("SOUTH", MB, 0), Connection("NORTH", MD, 0)>>,
                      <<>>, NoTrainers, {}))
    @@ (MD :> MapFile(2, 2, <<Connection("SOUTH", MC, 0)>>, <<>>, NoTrainers, {}))

(***************************************************************************)
(* cross_map.py: canonical map ids and the map cache                       *)
(***************************************************************************)
\* str.upper() on one character of a map id.
UpperChar(c) ==
    CASE c = "p" -> "P"
      [] c = "t" -> "T"
      [] c = "r" -> "R"
      [] c = "v" -> "V"
      [] c = "c" -> "C"
      [] c = "s" -> "S"
      [] c = "z" -> "Z"
      [] c = "x" -> "X"
      [] c = "l" -> "L"
      [] c = "g" -> "G"
      [] OTHER -> c

\* map_id.replace("_", "") alone: the case of the id is kept.
_normalize_map_id_keep_case(map_id) == SelectSeq(map_id, LAMBDA c : c # "_")

\* map_id.replace("_", "").upper()
_normalize_map_id(map_id) ==
    LET kept == SelectSeq(map_id, LAMBDA c : c # "_") IN
    [i \in 1..Len(kept) |-> UpperChar(kept[i])]

\* MapGraph(norm_id, maps_path): _load_map_data reads <norm_id>.json when the
\* file exists; the vision zones start empty.
MapGraph(norm_id) ==
    [map_id |-> norm_id,
     data |-> IF norm_id \in DOMAIN MapFiles THEN MapFiles[norm_id] ELSE EmptyData,
     trainer_zones |-> {}]

\* _get_map: the cache after the call (a miss inserts a new MapGraph).
CacheAfterGet(cache, map_id) ==
    LET norm_id == _normalize_map_id(map_id) IN
    IF norm_id \notin DOMAIN cache THEN Put(cache, norm_id, MapGraph(norm_id))
    ELSE cache

\* Lines 169-176 and 279-286: the vision zones are computed and installed
\* on the cached graph only when the policy's vision cost exceeds 1.0.
InstallZones(cache, norm_id, weights, defeated_trainers) ==
    IF weights.trainer_adjacent > 2
    THEN [cache EXCEPT ![norm_id] =
            set_trainer_zones(@, get_all_trainer_zones(@.data.trainers,
                                  defeated_trainers, @.data.width, @.data.height,
                                  NoCollisionCheck))]
    ELSE cache

\* CrossMapPath(success=False) with the dataclass defaults.
CrossMapFailure ==
    [success |-> FALSE, segments |-> <<>>, maps_traversed |-> <<>>,
     total_moves |-> 0, hms_required |-> <<>>, transitions |-> <<>>]

(***************************************************************************)
(* cross_map.py: exits and entries                                         *)
(***************************************************************************)
\* Index of the first TRUE of `hits` from position k on, or 0: a Python for
\* loop that returns at the first element passing its test.
RECURSIVE FirstIndex(_, _)
FirstIndex(hits, k) ==
    IF k > Len(hits) THEN 0
    ELSE IF hits[k] THEN k
    ELSE FirstIndex(hits, k + 1)

CardinalDirections == {"NORTH", "SOUTH", "EAST", "WEST"}

\* Which connections of `graph` lead to the map `norm_id`, in file order.
ConnectionsTo(graph, norm_id) ==
    [i \in 1..Len(graph.data.connections) |->
        /\ _normalize_map_id(graph.data.connections[i].map) = norm_id
        /\ graph.data.connections[i].direction \in CardinalDirections]

\* _find_exit_to: the first warp to the target map, else the border
\* midpoint of the first connection to it; None when there is neither.
_find_exit_to(graph, target_map) ==
    LET target_norm == _normalize_map_id(target_map)
        w == FirstIndex([i \in 1..Len(graph.data.warps) |->
                            _normalize_map_id(graph.data.warps[i].destination_map)
                               = target_norm], 1)
        c == FirstIndex(ConnectionsTo(graph, target_norm), 1)
        direction == graph.data.connections[c].direction
    IN IF w # 0 THEN Some(<<graph.data.warps[w].x, graph.data.warps[w].y>>)
       ELSE IF c = 0 THEN None
       ELSE IF direction = "NORTH" THEN Some(<<FloorHalf(width(graph)), 0>>)
       ELSE IF direction = "SOUTH"
            THEN Some(<<FloorHalf(width(graph)), height(graph) - 1>>)
       ELSE IF direction = "EAST"
            THEN Some(<<width(graph) - 1, FloorHalf(height(graph))>>)
       ELSE Some(<<0, FloorHalf(height(graph))>>)

\* _find_entry_from: `graph` is the map being entered; its first connection
\* back to from_map decides the entry edge, else the centre of the map.
_find_entry_from(graph, from_map, exit_x, exit_y) ==
    LET from_norm == _normalize_map_id(from_map)
        c == FirstIndex(ConnectionsTo(graph, from_norm), 1)
        direction == graph.data.connections[c].direction
        offset == graph.data.connections[c].offset
    IN IF c = 0 THEN <<FloorHalf(width(graph)), FloorHalf(height(graph))>>
       ELSE IF direction = "NORTH" THEN <<exit_x + offset, height(graph) - 1>>
       ELSE IF direction = "SOUTH" THEN <<exit_x + offset, 0>>
       ELSE IF direction = "EAST" THEN <<0, exit_y + offset>>
       ELSE <<width(graph) - 1, exit_y + offset>>

\* MapTransition with from_map and to_map exchanged.
MapTransition_swapped(from_map, from_pos, to_map, to_pos) ==
    [from_map |-> to_map, from_pos |-> from_pos, to_map |-> from_map,
     to_pos |-> to_pos, transition_type |-> "connection"]

\* MapTransition(...): line 335 records every transition as a "connection".
MapTransition(from_map, from_pos, to_map, to_pos) ==
    [from_map |-> from_map, from_pos |-> from_pos, to_map |-> to_map,
     to_pos |-> to_pos, transition_type |-> "connection"]

\* Lines 221-233: the set `connected` of the maps one hop from `graph`.
ConnectedMaps(graph) ==
    ({_normalize_map_id(graph.data.connections[i].map) :
          i \in 1..Len(graph.data.connections)}
     \cup {_normalize_map_id(graph.data.warps[i].destination_map) :
          i \in 1..Len(graph.data.warps)}) \ {<<>>}

(***************************************************************************)
(* The interpreter process and the router                                  *)
(***************************************************************************)
VARIABLES
    hash_seed,     \* the process's str hash seed (PYTHONHASHSEED, random by default)
    map_cache,     \* CrossMapRouter._map_cache: canonical id -> MapGraph
    pc,            \* where the call in progress stands
    call,          \* the arguments of the call in progress, ids normalised
    bfs,           \* the locals of _find_map_sequence: queue, visited
    build,         \* the locals of _build_multi_map_path
    astar_frame,   \* the locals of astar(), and the id of the graph it searches
    path_results,  \* the PathResults astar() has returned to this call, in order
    result,        \* the CrossMapPath the call returns
    prev,          \* the calls completed so far, oldest first
    parked         \* the locals of a second thread's call while the first runs

vars ==
    <<hash_seed, map_cache, pc, call, bfs, build, astar_frame, path_results,
      result, prev, parked>>

\* The hash seeds a process may start with.  The iteration order of a set
\* of str follows the hashes of its members, which follow the seed: under
\* one seed a set lists its members in one order, under another in another.
HashSeeds == {"seed_a", "seed_b"}

Reverse(seq) == [i \in 1..Len(seq) |-> seq[Len(seq) + 1 - i]]

\* The order in which a set of map ids is iterated under a seed.
MapOrder(seed) ==
    IF seed = "seed_a" THEN <<PT, R1, R2, VC, SZ, LZ, CT, G7, XX, MA, MB, MC, MD>>
    ELSE Reverse(<<PT, R1, R2, VC, SZ, LZ, CT, G7, XX, MA, MB, MC, MD>>)

\* The order in which a set of HM names is iterated under a seed.
HmOrder(seed) ==
    IF seed = "seed_a" THEN <<"CUT", "SURF", "STRENGTH", "FLY", "FLASH">>
    ELSE Reverse(<<"CUT", "SURF", "STRENGTH", "FLY", "FLASH">>)

NoFrame == <<>>

\* CrossMapRouter(): an interpreter has started and built a router.
Init ==
    /\ hash_seed \in HashSeeds
    /\ map_cache = EmptyDict
    /\ pc = "idle"
    /\ call = NoFrame
    /\ bfs = NoFrame
    /\ build = NoFrame
    /\ astar_frame = NoFrame
    /\ path_results = <<>>
    /\ result = CrossMapFailure
    /\ prev = <<>>
    /\ parked = NoFrame

\* Lines 113-133 of astar(): the bounds checks and the initial locals.  The
\* search goes to `running` or, out of bounds, returns at once to `ret`.
EnterAstar(cache, norm_id, start, goal, running, ret) ==
    LET graph == cache[norm_id] IN
    IF in_bounds(graph, start[1], start[2]) /\ in_bounds(graph, goal[1], goal[2])
    THEN /\ astar_frame' =
               AstarFrame(start, goal, call'.hms_available, call'.weights,
                          call'.max_iterations) @@ [graph |-> norm_id]
         /\ path_results' = path_results
         /\ pc' = running
    ELSE /\ astar_frame' = NoFrame
         /\ path_results' = Append(path_results, PathFailure(0))
         /\ pc' = ret

\* find_path, lines 115-152: defaults, normalisation and dispatch.
FindPath(args) ==
    /\ pc = "idle"
    /\ call' = [args EXCEPT !.from_map = _normalize_map_id(args.from_map),
                            !.to_map = _normalize_map_id(args.to_map)]
                @@ [raw_from_map |-> args.from_map, raw_to_map |-> args.to_map,
                    cache_before |-> map_cache,
                    max_iterations |-> DEFAULT_MAX_ITERATIONS]
    /\ path_results' = <<>>
    /\ result' = CrossMapFailure
    /\ IF call'.from_map = call'.to_map
       THEN /\ pc' = "single"
            /\ bfs' = NoFrame
       ELSE /\ pc' = "bfs"
            /\ bfs' = [queue |-> <<[map |-> call'.from_map, path |-> <<call'.from_map>>]>>,
                       visited |-> {call'.from_map}]
    /\ UNCHANGED <<hash_seed, parked, map_cache, build, astar_frame, prev>>

\* _single_map_path, lines 166-181, up to the start of the search.
SingleMapSetup ==
    /\ pc = "single"
    /\ LET loaded == CacheAfterGet(map_cache, call.from_map)
           cache == InstallZones(loaded, call.from_map, call.weights,
                                 call.defeated_trainers)
           start == <<call.from_x, call.from_y>>
           goal == <<PyOr(call.to_x, call.from_x), PyOr(call.to_y, call.from_y)>>
       IN /\ map_cache' = cache
          /\ UNCHANGED call
          /\ EnterAstar(cache, call.from_map, start, goal, "single_astar", "single_ret")
    /\ UNCHANGED <<hash_seed, parked, bfs, build, result, prev>>

\* One turn of the main loop of astar() (lines 136-182), or its exit with
\* the failure of lines 185-188.  The graph is the cached object, read now.
\* An exception leaves the call at "raised": nothing catches it.
AstarStep ==
    /\ pc \in {"single_astar", "build_astar", "astar"}
    /\ LET fr == astar_frame
           ret == CASE pc = "single_astar" -> "single_ret"
                    [] pc = "build_astar" -> "build_ret"
                    [] OTHER -> "astar_done"
           current == HeapMin(fr.open_set)[3]
           popped == AstarPop(fr)
       IN IF ~AstarRunning(fr)
          THEN /\ path_results' = Append(path_results, PathFailure(fr.iterations))
               /\ astar_frame' = fr
               /\ pc' = ret
          ELSE IF current \notin DOMAIN fr.g_score
          THEN \* g_score[current] (lines 158, 166) raises KeyError
               /\ astar_frame' = popped
               /\ pc' = "raised"
               /\ UNCHANGED path_results
          ELSE IF current = fr.goal
          THEN /\ path_results' =
                     Append(path_results, AstarSuccess(popped, current, HmOrder(hash_seed)))
               /\ astar_frame' = popped
               /\ pc' = ret
          ELSE /\ astar_frame' =
                     RelaxAll(popped, current,
                              neighbors(map_cache[fr.graph], current,
                                        fr.hms_available, fr.weights), 1)
               /\ UNCHANGED <<path_results, pc>>
    /\ UNCHANGED <<hash_seed, parked, map_cache, call, bfs, build, result, prev>>

\* _single_map_path, lines 183-192.
SingleMapReturn ==
    /\ pc = "single_ret"
    /\ LET r == path_results[Len(path_results)] IN
       result' = IF r.success
                 THEN [success |-> TRUE,
                       segments |-> <<[map_id |-> call.from_map, moves |-> r.moves]>>,
                       maps_traversed |-> <<call.from_map>>,
                       total_moves |-> Len(r.moves),
                       hms_required |-> r.hms_required,
                       transitions |-> <<>>]
                 ELSE CrossMapFailure
    /\ pc' = "done"
    /\ UNCHANGED <<hash_seed, parked, map_cache, call, bfs, build, astar_frame,
                   path_results, prev>>

\* Lines 235-238: the unvisited members of `connected`, in the order the
\* set is iterated, appended to the queue and added to visited.
\* The loop of lines 235-238 without the test `next_map not in visited`.
RECURSIVE Enqueue_revisit(_, _, _, _)
Enqueue_revisit(frame, path, order, k) ==
    IF k > Len(order) THEN frame
    ELSE Enqueue_revisit([queue |-> Append(frame.queue,
                                     [map |-> order[k], path |-> Append(path, order[k])]),
                          visited |-> frame.visited \cup {order[k]}],
                         path, order, k + 1)

RECURSIVE Enqueue(_, _, _, _)
Enqueue(frame, path, order, k) ==
    IF k > Len(order) THEN frame
    ELSE IF order[k] \notin frame.visited
    THEN Enqueue([queue |-> Append(frame.queue,
                                   [map |-> order[k], path |-> Append(path, order[k])]),
                  visited |-> frame.visited \cup {order[k]}],
                 path, order, k + 1)
    ELSE Enqueue(frame, path, order, k + 1)

\* The locals of _build_multi_map_path at lines 268-273.
BuildFrame(map_sequence) ==
    [map_sequence |-> map_sequence, i |-> 0, segments |-> <<>>,
     transitions |-> <<>>, all_hms |-> {}, total_moves |-> 0,
     current_x |-> call.from_x, current_y |-> call.from_y,
     goal_x |-> 0, goal_y |-> 0]

\* One turn of the loop of _find_map_sequence (lines 213-238), or its exit
\* with [] and the failure of line 140.
BfsStep ==
    /\ pc = "bfs"
    /\ IF bfs.queue = <<>>
       THEN /\ result' = CrossMapFailure
            /\ pc' = "done"
            /\ UNCHANGED <<map_cache, bfs, build>>
       ELSE LET current_map == Head(bfs.queue).map
                path == Head(bfs.queue).path
                popped == [bfs EXCEPT !.queue = Tail(bfs.queue)]
                cache == CacheAfterGet(map_cache, current_map)
                connected == ConnectedMaps(cache[current_map])
            IN IF current_map = call.to_map
               THEN /\ build' = BuildFrame(path)
                    /\ bfs' = popped
                    /\ pc' = "build"
                    /\ UNCHANGED <<map_cache, result>>
               ELSE /\ map_cache' = cache
                    /\ bfs' = Enqueue(popped, path,
                                      ListOfSet(connected, MapOrder(hash_seed)), 1)
                    /\ UNCHANGED <<pc, build, result>>
    /\ UNCHANGED <<hash_seed, parked, call, astar_frame, path_results, prev>>

\* CrossMapPath(success=False) where lines 298-302 and 311-315 return the
\* segments and the maps so far.
PartialFailure_bare(frame) == CrossMapFailure

\* CrossMapPath(success=False, segments=segments,
\*              maps_traversed=map_sequence[: i + 1]), lines 298-302, 311-315.
PartialFailure(frame) ==
    [CrossMapFailure EXCEPT
        !.segments = frame.segments,
        !.maps_traversed = SubSeq(frame.map_sequence, 1, frame.i + 1)]

\* The loop body of _build_multi_map_path from line 276 to the call of
\* astar at line 308.
BuildSegment ==
    /\ pc = "build"
    /\ LET n == Len(build.map_sequence)
           map_id == build.map_sequence[build.i + 1]
           loaded == CacheAfterGet(map_cache, map_id)
           cache == InstallZones(loaded, map_id, call.weights, call.defeated_trainers)
           graph == cache[map_id]
           last == build.i = n - 1
           exit_pos == _find_exit_to(graph, build.map_sequence[build.i + 2])
           goal == IF last
                   THEN <<IF call.to_x # None THEN Val(call.to_x)
                          ELSE FloorHalf(width(graph)),
                          IF call.to_y # None THEN Val(call.to_y)
                          ELSE FloorHalf(height(graph))>>
                   ELSE Val(exit_pos)
       IN /\ map_cache' = cache
          /\ UNCHANGED call
          /\ IF ~last /\ exit_pos = None
             THEN /\ result' = PartialFailure(build)
                  /\ pc' = "done"
                  /\ UNCHANGED <<build, astar_frame, path_results>>
             ELSE /\ build' = [build EXCEPT !.goal_x = goal[1], !.goal_y = goal[2]]
                  /\ EnterAstar(cache, map_id, <<build.current_x, build.current_y>>,
                                goal, "build_astar", "build_ret")
                  /\ UNCHANGED result
    /\ UNCHANGED <<hash_seed, parked, bfs, prev>>

\* The loop body of _build_multi_map_path after astar returns (lines
\* 310-342), and the return of lines 344-351 after the last map.
BuildAfterAstar ==
    /\ pc = "build_ret"
    /\ LET r == path_results[Len(path_results)]
           n == Len(build.map_sequence)
           map_id == build.map_sequence[build.i + 1]
           next_map == build.map_sequence[build.i + 2]
           added == [build EXCEPT
                        !.segments = Append(@, [map_id |-> map_id, moves |-> r.moves]),
                        !.all_hms = @ \cup Range(r.hms_required),
                        !.total_moves = @ + Len(r.moves)]
           cache == CacheAfterGet(map_cache, next_map)
           entry_pos == _find_entry_from(cache[next_map], map_id,
                                         build.goal_x, build.goal_y)
       IN IF ~r.success
          THEN /\ result' = PartialFailure(build)
               /\ pc' = "done"
               /\ UNCHANGED <<map_cache, build>>
          ELSE IF build.i < n - 1
          THEN /\ map_cache' = cache
               /\ build' = [added EXCEPT
                      !.i = @ + 1,
                      !.current_x = entry_pos[1],
                      !.current_y = entry_pos[2],
                      !.transitions = Append(@,
                          MapTransition(map_id, <<build.goal_x, build.goal_y>>,
                                        next_map, entry_pos))]
               /\ pc' = "build"
               /\ UNCHANGED result
          ELSE /\ result' = [success |-> TRUE,
                             segments |-> added.segments,
                             maps_traversed |-> build.map_sequence,
                             total_moves |-> added.total_moves,
                             hms_required |-> ListOfSet(added.all_hms, HmOrder(hash_seed)),
                             transitions |-> build.transitions]
               /\ build' = [added EXCEPT !.i = @ + 1]
               /\ pc' = "done"
               /\ UNCHANGED map_cache
    /\ UNCHANGED <<hash_seed, parked, call, bfs, astar_frame, path_results, prev>>

\* find_path has returned `result` to its caller.
Return ==
    /\ pc = "done"
    /\ prev' = Append(prev, [call |-> call, hash_seed |-> hash_seed,
                             result |-> result, path_results |-> path_results])
    /\ pc' = "idle"
    /\ UNCHANGED <<hash_seed, parked, map_cache, call, bfs, build, astar_frame,
                   path_results, result>>

\* The interpreter is started afresh (a new hash seed) and builds a new
\* router, whose cache is empty.
NewProcess ==
    /\ pc = "idle"
    /\ prev # <<>>
    /\ hash_seed' \in HashSeeds
    /\ map_cache' = EmptyDict
    /\ UNCHANGED <<pc, call, bfs, build, astar_frame, path_results, result, prev,
                   parked>>

\* A new CrossMapRouter in the same process, as the facade find_path and
\* NavigationAgent._find_path build for every request.
NewRouter ==
    /\ pc = "idle"
    /\ prev # <<>>
    /\ DOMAIN map_cache # {}
    /\ map_cache' = EmptyDict
    /\ UNCHANGED <<hash_seed, parked, pc, call, bfs, build, astar_frame, path_results,
                   result, prev>>

(***************************************************************************)
(* The requests the router is driven with                                  *)
(***************************************************************************)
\* Coordinates run over 0..MaxCoord; the maps of the atlas are at most
\* MaxCoord wide and high, so MaxCoord itself is off every map.
MaxCoord == 3

Coords == 0..MaxCoord

OptCoords == {None} \cup {Some(v) : v \in Coords}

\* weights.trainer_adjacent = 1.0, what the callers pass for
\* avoid_trainers = False.
NoAvoidWeights == [TileWeights EXCEPT !.trainer_adjacent = 2]

Request(from_map, from_x, from_y, to_map, to_x, to_y, hms, weights, defeated) ==
    [from_map |-> from_map, from_x |-> from_x, from_y |-> from_y,
     to_map |-> to_map, to_x |-> to_x, to_y |-> to_y,
     hms_available |-> hms, weights |-> weights, defeated_trainers |-> defeated]

\* What a caller varies besides the coordinates: HMs, policy, defeated set.
Settings ==
    {[hms |-> <<>>, weights |-> TileWeights, defeated |-> {}],
     [hms |-> <<"cut">>, weights |-> TileWeights, defeated |-> {<<"trainer", 0>>}],
     [hms |-> <<>>, weights |-> NoAvoidWeights, defeated |-> {}]}

\* The requests of Spec: from anywhere on PT (or just off it) to PT, to VC
\* two hops away, or to a map that has no file; across LZ; across CT with
\* and without Cut.
Requests ==
    {Request(<<"p", "_", "t">>, fx, fy, to_map, tx, ty, s.hms, s.weights, s.defeated) :
        fx \in Coords, fy \in Coords,
        to_map \in {<<"P", "T">>, <<"V", "C">>, <<"X", "X">>},
        tx \in OptCoords, ty \in OptCoords, s \in Settings}
    \cup {Request(LZ, 0, 1, <<"l", "z">>, Some(2), Some(1), <<>>, TileWeights, {})}
    \cup {Request(CT, 0, 1, CT, Some(2), Some(1), hms, TileWeights, {}) :
            hms \in {<<>>, <<"CUT">>}}

\* Requests a caller should not make but can: a negative start, a negative
\* destination, a source map that has no file, a destination map that has
\* a file but no link to the source.
EdgeRequests ==
    {Request(PT, -1, 0, to_map, Some(1), Some(1), <<>>, TileWeights, {}) :
        to_map \in {PT, VC}}
    \cup {Request(PT, 0, 0, to_map, Some(-1), Some(1), <<>>, TileWeights, {}) :
            to_map \in {PT, VC}}
    \cup {Request(XX, 0, 0, PT, None, None, <<>>, TileWeights, {}),
          Request(PT, 0, 0, SZ, None, None, <<>>, TileWeights, {})}

\* Requests between the maps of the region MA, MB, MC, MD, where MA and MB
\* are joined both ways by a connection and by a warp, MA leads to MD in
\* one hop and in three, and MD leads nowhere but to MC.
RegionRequests ==
    {Request(a, 0, 0, b, None, None, <<>>, TileWeights, {}) :
        a \in {MA, MB, MC, MD}, b \in {MA, MB, MC, MD, SZ}}

\* One request to a fresh router in a fresh process.
FirstCall ==
    \E args \in Requests \cup EdgeRequests \cup RegionRequests :
        prev = <<>> /\ FindPath(args)

Next ==
    \/ FirstCall
    \/ SingleMapSetup
    \/ AstarStep
    \/ SingleMapReturn
    \/ BfsStep
    \/ BuildSegment
    \/ BuildAfterAstar
    \/ Return

Spec == Init /\ [][Next]_vars

(***************************************************************************)
(* Two requests in a row: the same router, a new router, or a new process  *)
(***************************************************************************)
\* A policy whose vision cost is 3.0.
MildWeights == [TileWeights EXCEPT !.trainer_adjacent = 6]

\* A policy whose vision cost is 0.5: tiles in sight are sought.
SeekWeights == [TileWeights EXCEPT !.trainer_adjacent = 1]

PairRequests ==
    {Request(PT, 0, 1, VC, None, None, <<>>, TileWeights, {}),
     Request(<<"p", "_", "t">>, 0, 1, <<"V", "_", "c">>, None, None, <<>>, TileWeights, {}),
     Request(SZ, 0, 0, SZ, Some(2), Some(2), <<>>, SeekWeights,
             {<<"LASS", 1>>, <<"LASS", 2>>})}
    \cup {Request(SZ, 2, 0, SZ, Some(2), Some(4), <<>>, MildWeights, d) :
            d \in {{}, {<<"LASS", 1>>}}}

PairFirstCall == \E args \in PairRequests : prev = <<>> /\ FindPath(args)

PairSecondCall == \E args \in PairRequests : Len(prev) = 1 /\ FindPath(args)

NextPair ==
    \/ PairFirstCall
    \/ PairSecondCall
    \/ NewProcess
    \/ NewRouter
    \/ SingleMapSetup
    \/ AstarStep
    \/ SingleMapReturn
    \/ BfsStep
    \/ BuildSegment
    \/ BuildAfterAstar
    \/ Return

SpecPair == Init /\ [][NextPair]_vars

(***************************************************************************)
(* astar() called directly on a graph the caller has prepared              *)
(***************************************************************************)
\* The vision zones the caller installs with set_trainer_zones on the 7 x 5
\* grid G7: none, and eight scattered tiles.
ZoneCatalogue ==
    {{},
     {<<0, 2>>, <<1, 1>>, <<2, 2>>, <<3, 1>>, <<3, 3>>, <<4, 1>>, <<5, 2>>, <<6, 1>>}}

\* A process in which G7 is loaded and its zones have been set.
InitAstar ==
    /\ hash_seed \in HashSeeds
    /\ \E zones \in ZoneCatalogue :
          map_cache = Put(EmptyDict, G7, set_trainer_zones(MapGraph(G7), zones))
    /\ pc = "idle"
    /\ call = NoFrame
    /\ bfs = NoFrame
    /\ build = NoFrame
    /\ astar_frame = NoFrame
    /\ path_results = <<>>
    /\ result = CrossMapFailure
    /\ prev = <<>>
    /\ parked = NoFrame

\* astar(graph, start, goal) with the defaults: no HMs, TileWeights().
AstarCall ==
    /\ pc = "idle"
    /\ path_results = <<>>
    /\ \E sx \in 0..6, sy \in 0..5, gx \in 0..6, gy \in 0..4 :   \* row 5 is off G7
          /\ call' = [hms_available |-> <<>>, weights |-> TileWeights,
                      max_iterations |-> DEFAULT_MAX_ITERATIONS]
          /\ EnterAstar(map_cache, G7, <<sx, sy>>, <<gx, gy>>, "astar", "astar_done")
    /\ UNCHANGED <<hash_seed, parked, map_cache, bfs, build, result, prev>>

NextAstar ==
    \/ AstarCall
    \/ AstarStep

SpecAstar == InitAstar /\ [][NextAstar]_vars

(***************************************************************************)
(* astar() called with an iteration cap                                    *)
(***************************************************************************)
\* The caps run over 0..MaxCap; the grid G7 has 35 tiles, so every cap of
\* the range is hit by a search between two far tiles.
MaxCap == 6

\* astar(graph, start, goal, max_iterations=cap) from three columns and
\* three rows (row 5 is off G7) to every tile of G7.
AstarCappedCall ==
    /\ pc = "idle"
    /\ path_results = <<>>
    /\ \E sx \in {0, 3, 6}, sy \in {0, 2, 5}, gx \in 0..6, gy \in 0..4,
          cap \in 0..MaxCap :
          /\ call' = [hms_available |-> <<>>, weights |-> TileWeights,
                      max_iterations |-> cap]
          /\ EnterAstar(map_cache, G7, <<sx, sy>>, <<gx, gy>>, "astar", "astar_done")
    /\ UNCHANGED <<hash_seed, parked, map_cache, bfs, build, result, prev>>

NextCapped ==
    \/ AstarCappedCall
    \/ AstarStep

SpecCapped == InitAstar /\ [][NextCapped]_vars

(***************************************************************************)
(* Two threads calling find_path on one router                             *)
(***************************************************************************)
\* The locals of the call the running thread has in progress.
Locals ==
    [pc |-> pc, call |-> call, bfs |-> bfs, build |-> build,
     astar_frame |-> astar_frame, path_results |-> path_results,
     result |-> result]

\* The locals of a thread that has not called find_path yet.
FreshLocals ==
    [pc |-> "idle", call |-> NoFrame, bfs |-> NoFrame, build |-> NoFrame,
     astar_frame |-> NoFrame, path_results |-> <<>>, result |-> CrossMapFailure]

\* The arguments a call was made with.
ArgsOf(c) ==
    Request(c.raw_from_map, c.from_x, c.from_y, c.raw_to_map, c.to_x, c.to_y,
            c.hms_available, c.weights, c.defeated_trainers)

ThreadRequests ==
    {Request(PT, 0, 1, VC, None, None, <<>>, TileWeights, {})}
    \cup {Request(SZ, 2, 0, SZ, Some(2), Some(4), <<>>, MildWeights, d) :
            d \in {{}, {<<"LASS", 1>>}}}

\* A request served alone, by a router no other thread uses.
SoloCall == \E args \in ThreadRequests : prev = <<>> /\ FindPath(args)

\* The router of the solo call is replaced by a new one.
FreshRouter == Len(prev) = 1 /\ parked = NoFrame /\ NewRouter

\* The first thread makes the request of the solo call again.
ThreadCall ==
    /\ Len(prev) = 1 /\ parked = NoFrame /\ map_cache = EmptyDict
    /\ FindPath(ArgsOf(prev[1].call))

\* The second thread makes its request.
OtherThreadCall ==
    \E args \in ThreadRequests :
        parked # NoFrame /\ call = NoFrame /\ FindPath(args)

\* The interpreter switches threads: between two bytecodes, so between any
\* two steps of a call.  The locals of the running call are set aside and
\* those of the other thread come back; map_cache, an attribute of the
\* router both threads hold, stays as it is.
Switch ==
    /\ Len(prev) >= 1
    /\ \/ parked = NoFrame /\ pc # "idle"
       \/ parked # NoFrame /\ (pc # "idle" \/ parked.pc # "idle")
    /\ parked' = Locals
    /\ LET to == IF parked = NoFrame THEN FreshLocals ELSE parked IN
       /\ pc' = to.pc
       /\ call' = to.call
       /\ bfs' = to.bfs
       /\ build' = to.build
       /\ astar_frame' = to.astar_frame
       /\ path_results' = to.path_results
       /\ result' = to.result
    /\ UNCHANGED <<hash_seed, map_cache, prev>>

NextThreads ==
    \/ SoloCall
    \/ FreshRouter
    \/ ThreadCall
    \/ OtherThreadCall
    \/ Switch
    \/ SingleMapSetup
    \/ AstarStep
    \/ SingleMapReturn
    \/ BfsStep
    \/ BuildSegment
    \/ BuildAfterAstar
    \/ Return

SpecThreads == Init /\ [][NextThreads]_vars

(***************************************************************************)
(* The callers that build the weights from two flags                       *)
(***************************************************************************)
\* pathfinding.find_path, __init__.py 124-130: TileWeights() with grass set
\* only when avoid_grass holds, trainer_adjacent set on both branches.
FacadeWeights(avoid_grass, avoid_trainers) ==
    LET with_grass == IF avoid_grass THEN [TileWeights EXCEPT !.grass = 10]
                      ELSE TileWeights
    IN [with_grass EXCEPT !.trainer_adjacent = IF avoid_trainers THEN 200 ELSE 2]

\* NavigationAgent._find_path, navigation.py 242-252: both weights are
\* set on both branches.
AgentWeights(avoid_grass, avoid_trainers) ==
    [TileWeights EXCEPT !.grass = IF avoid_grass THEN 10 ELSE 2,
                        !.trainer_adjacent = IF avoid_trainers THEN 200 ELSE 2]

\* preferences.get(key, True): an absent key reads as True.
PrefGet(o) == IF o = None THEN TRUE ELSE Val(o)

\* The destinations the two callers are driven with, from (0, 1) on PT.
FlagRequests ==
    {Request(PT, 0, 1, to_map, tx, ty, <<>>, TileWeights, d) :
        to_map \in {PT, VC}, tx \in {None, Some(2)}, ty \in {None, Some(2)},
        d \in {{}, {<<"trainer", 0>>}}}

\* pathfinding.find_path(..., avoid_grass, avoid_trainers, ...): a new
\* router, and the request passed on with the weights built from the flags.
FacadeCall ==
    \E args \in FlagRequests, avoid_grass \in BOOLEAN, avoid_trainers \in BOOLEAN :
        /\ prev = <<>>
        /\ map_cache = EmptyDict
        /\ FindPath([args EXCEPT !.weights = FacadeWeights(avoid_grass, avoid_trainers)]
                    @@ [via |-> "find_path", avoid_grass |-> avoid_grass,
                        avoid_trainers |-> avoid_trainers])

\* NavigationAgent._find_path with a preferences dict that may lack either
\* key: a new router, and the weights built from the preferences.
AgentCall ==
    \E args \in FlagRequests,
       grass_pref \in {None, Some(TRUE), Some(FALSE)},
       trainers_pref \in {None, Some(TRUE), Some(FALSE)} :
        /\ prev = <<>>
        /\ map_cache = EmptyDict
        /\ FindPath([args EXCEPT !.weights = AgentWeights(PrefGet(grass_pref),
                                                          PrefGet(trainers_pref))]
                    @@ [via |-> "_find_path", avoid_grass |-> PrefGet(grass_pref),
                        avoid_trainers |-> PrefGet(trainers_pref)])

NextFlags ==
    \/ FacadeCall
    \/ AgentCall
    \/ SingleMapSetup
    \/ AstarStep
    \/ SingleMapReturn
    \/ BfsStep
    \/ BuildSegment
    \/ BuildAfterAstar
    \/ Return

SpecFlags == Init /\ [][NextFlags]_vars

(***************************************************************************)
(* The cost of entering a tile of a given class                            *)
(***************************************************************************)
\* Lines 187-196 of MapGraph.neighbors for a tile inside the map: the cost
\* of the edge it yields, inf when it yields none.
tile_edge_cost(tile_type, direction, hms_available, weights) ==
    IF is_passable(tile_type, direction, hms_available)
    THEN get_tile_weight(tile_type, hms_available, weights)
    ELSE inf

\* The policies the cost is asked for: the defaults, the three presets and
\* a policy whose walkable cost is 2.0.
Policies ==
    {TileWeights, avoid_encounters, seek_encounters, speed_run,
     [TileWeights EXCEPT !.walkable = 4]}

HMLists ==
    {<<>>, <<"CUT">>, <<"surf">>, <<"STRENGTH">>, <<"cut", "SURF", "strength">>}

\* neighbors() reaches a tile of class tile_type by a move in `direction`.
TileCostCall ==
    /\ pc = "idle"
    /\ \E tile_type \in TileType, direction \in DOMAIN DIRECTION_VECTORS,
          hms \in HMLists, weights \in Policies :
          /\ call' = [tile_type |-> tile_type, direction |-> direction,
                      hms_available |-> hms, weights |-> weights]
          /\ result' = [cost |-> tile_edge_cost(tile_type, direction, hms, weights)]
    /\ pc' = "tile_done"
    /\ UNCHANGED <<hash_seed, parked, map_cache, bfs, build, astar_frame,
                   path_results, prev>>

NextTiles ==
    \/ TileCostCall

SpecTiles == Init /\ [][NextTiles]_vars

(***************************************************************************)
(* Reading a returned plan                                                 *)
(***************************************************************************)
\* The tile one move leads to.
StepTo(pos, move) ==
    <<pos[1] + DIRECTION_VECTORS[move][1], pos[2] + DIRECTION_VECTORS[move][2]>>

\* The tiles entered, in order, when the moves are applied from pos.
RECURSIVE Walk(_, _)
Walk(pos, moves) ==
    IF moves = <<>> THEN <<>>
    ELSE <<StepTo(pos, Head(moves))>> \o Walk(StepTo(pos, Head(moves)), Tail(moves))

\* Where the moves end.
EndOf(pos, moves) ==
    IF moves = <<>> THEN pos ELSE Walk(pos, moves)[Len(moves)]

\* Where segment k of the plan of the call in progress starts: the caller's
\* position, then the entry coordinate of each transition.
SegmentStart(k) ==
    IF k = 1 THEN <<call.from_x, call.from_y>> ELSE build.transitions[k - 1].to_pos

\* The descriptor of a map as its file gives it.
FileOf(map_id) == MapGraph(map_id).data

OnMap(data, pos) ==
    0 <= pos[1] /\ pos[1] < data.width /\ 0 <= pos[2] /\ pos[2] < data.height

SegmentLengths(plan) == [k \in 1..Len(plan.segments) |-> Len(plan.segments[k].moves)]

C4_TotalMoves ==
    pc = "done" => result.total_moves = SumSeq(SegmentLengths(result))

\* C5 (degenerate path): a request from an in-bounds coordinate of a loaded
\* map to the same coordinate succeeds with one segment without moves,
\* total_moves 0 and no HMs, and the astar run behind it succeeds with no
\* moves and cost 0.
C5_Degenerate ==
    (/\ pc = "done"
     /\ call.from_map = call.to_map
     /\ call.from_map \in DOMAIN MapFiles
     /\ OnMap(FileOf(call.from_map), <<call.from_x, call.from_y>>)
     /\ call.to_x = Some(call.from_x)
     /\ call.to_y = Some(call.from_y))
    => /\ result.success
       /\ Len(result.segments) = 1
       /\ result.segments[1].moves = <<>>
       /\ result.total_moves = 0
       /\ result.hms_required = <<>>
       /\ Len(path_results) = 1
       /\ path_results[1].success
       /\ path_results[1].moves = <<>>
       /\ path_results[1].total_cost = 0

\* The request from (0, 2) of PT to (0, 2) of PT has returned.
C5_Witness ==
    /\ pc = "done"
    /\ call.from_map = PT
    /\ call.to_map = PT
    /\ <<call.from_x, call.from_y>> = <<0, 2>>
    /\ call.to_x = Some(0)
    /\ call.to_y = Some(2)
    /\ result.success

\* C9 (endpoint): when the caller gives to_x and to_y and the request
\* succeeds, the moves of the last segment end exactly at (to_x, to_y).
C9_Endpoint ==
    (pc = "done" /\ result.success /\ call.to_x # None /\ call.to_y # None)
    => LET n == Len(result.segments) IN
       EndOf(SegmentStart(n), result.segments[n].moves)
           = <<Val(call.to_x), Val(call.to_y)>>

\* C10 (default destination): when the caller gives neither to_x nor to_y
\* and the request succeeds, the goal of the last segment is the centre
\* (width // 2, height // 2) of the destination map.
C10_DefaultCentre ==
    (pc = "done" /\ result.success /\ call.to_x = None /\ call.to_y = None)
    => astar_frame.goal = <<FloorHalf(FileOf(call.to_map).width),
                            FloorHalf(FileOf(call.to_map).height)>>

(***************************************************************************)
(* Claims C6 and C8: what a plan steps on (Spec)                           *)
(***************************************************************************)
Adjacent(a, b) == Abs(a[1] - b[1]) + Abs(a[2] - b[2]) = 1

TilesOf(data) == (0..data.width - 1) \X (0..data.height - 1)

\* The tiles of a map reachable from `from` by steps that enter only
\* on-map tiles outside `avoid`; `reached` maps a tile to whether it is.
RECURSIVE Closure(_, _, _)
Closure(data, avoid, reached) ==
    LET more == [t \in TilesOf(data) |->
                    \/ reached[t]
                    \/ /\ t \notin avoid
                       /\ \E d \in DOMAIN DIRECTION_VECTORS :
                             /\ StepTo(t, d) \in TilesOf(data)
                             /\ reached[StepTo(t, d)]]
    IN IF more = reached THEN reached ELSE Closure(data, avoid, more)

FreeReach(data, from, avoid) ==
    LET reached == Closure(data, avoid, [t \in TilesOf(data) |-> t = from])
    IN {from} \cup {t \in TilesOf(data) : reached[t]}

\* The vision field of the undefeated NPCs of a map, from its file.
VisionField(map_id, defeated) ==
    get_all_trainer_zones(FileOf(map_id).trainers, defeated,
                          FileOf(map_id).width, FileOf(map_id).height,
                          NoCollisionCheck)

\* The tiles only the defeated NPCs of a map would watch.
FormerVision(map_id, defeated) ==
    VisionField(map_id, {}) \ VisionField(map_id, defeated)

\* A map on which no route without a vision tile can cost 100 or more, the
\* distance left to the goal counted in.
SmallMap(data) == data.width * data.height + data.width + data.height <= 100

\* Under vision cost 100, on every map or on the small ones only: a segment
\* of a successful plan enters a vision tile of an undefeated NPC only when no
\* route from its start to its goal is free of them, and a tile only
\* defeated NPCs would watch costs what a walkable tile costs.
AvoidsVision(small_only) ==
    (pc = "done" /\ result.success /\ call.weights.trainer_adjacent = 200)
    => \A k \in 1..Len(result.segments) :
         LET seg == result.segments[k]
             data == FileOf(seg.map_id)
             zones == VisionField(seg.map_id, call.defeated_trainers)
             from == SegmentStart(k)
         IN (small_only => SmallMap(data)) =>
            /\ Range(Walk(from, seg.moves)) \cap zones # {}
                  => EndOf(from, seg.moves) \notin FreeReach(data, from, zones)
            /\ \A t \in FormerVision(seg.map_id, call.defeated_trainers) :
                  get_tile_weight(get_tile_type(map_cache[seg.map_id], t[1], t[2]),
                                  call.hms_available, call.weights)
                     = get_tile_weight("WALKABLE", call.hms_available, call.weights)

CutObstacles(data) ==
    {<<t.x, t.y>> : t \in {c \in data.tile_classes : c.class = "CUT_TREE"}}

\* C8 (HM gate): on a map where every route from the start to the goal
\* crosses a CutObstacle tile, a request without HMs fails, and a request
\* with Cut succeeds and lists Cut in hms_required.
C8_HMGate ==
    (/\ pc = "done"
     /\ call.from_map = call.to_map
     /\ call.to_x # None
     /\ call.to_y # None
     /\ OnMap(FileOf(call.to_map), <<call.from_x, call.from_y>>)
     /\ OnMap(FileOf(call.to_map), <<Val(call.to_x), Val(call.to_y)>>)
     /\ <<Val(call.to_x), Val(call.to_y)>>
           \notin FreeReach(FileOf(call.to_map), <<call.from_x, call.from_y>>,
                            CutObstacles(FileOf(call.to_map))))
    => IF "CUT" \in UpperHMs(call.hms_available)
       THEN result.success /\ "CUT" \in Range(result.hms_required)
       ELSE ~result.success

(***************************************************************************)
(* Claims C1 and C7: two requests compared (SpecPair)                      *)
(***************************************************************************)
\* C1 (determinism): two invocations of find_path with the same arguments
\* (from, to, hms, policy, defeated) on the same cache state return the
\* same plan, field for field.  The record of a call holds its arguments
\* and the cache it found.
C1_Determinism ==
    (Len(prev) = 2 /\ prev[1].call = prev[2].call)
    => prev[1].result = prev[2].result

\* The cost of a returned plan: the costs of its segments' paths, added up.
PlanCost(done) ==
    SumSeq([k \in 1..Len(done.path_results) |-> done.path_results[k].total_cost])

\* The second call repeats the first with one more trainer id in defeated.
OneMoreDefeated(first, second) ==
    /\ [second EXCEPT !.defeated_trainers = {}, !.cache_before = <<>>]
          = [first EXCEPT !.defeated_trainers = {}, !.cache_before = <<>>]
    /\ first.defeated_trainers \subseteq second.defeated_trainers
    /\ Cardinality(second.defeated_trainers \ first.defeated_trainers) = 1

\* C7 (vision monotonicity): adding a trainer id to defeated never raises
\* the cost of the plan returned for the same from, to, hms and policy, and
\* never turns a success into a failure.
C7_VisionMonotone ==
    (Len(prev) = 2 /\ OneMoreDefeated(prev[1].call, prev[2].call)
        /\ prev[1].result.success)
    => /\ prev[2].result.success
       /\ PlanCost(prev[2]) <= PlanCost(prev[1])

(***************************************************************************)
(* Claim C2: astar against a reference search (SpecAstar)                  *)
(***************************************************************************)
\* What neighbors() charges for the step from m to n, or inf.
EdgeCost(graph, m, n, hms_available, weights) ==
    LET edges == SelectSeq(neighbors(graph, m, hms_available, weights),
                           LAMBDA e : e.destination = n)
    IN IF edges = <<>> THEN inf ELSE edges[1].cost

Least(S) == CHOOSE v \in S : \A o \in S : v <= o

\* The reference search: the least cost from `start` to every tile over the
\* edges of neighbors(), by relaxing every edge until nothing changes.
RECURSIVE Settle(_, _, _, _)
Settle(graph, hms_available, weights, dist) ==
    LET more == [n \in DOMAIN dist |->
                   Least({dist[n]} \cup
                         {dist[StepTo(n, d)] + EdgeCost(graph, StepTo(n, d), n,
                                                        hms_available, weights) :
                             d \in {v \in DOMAIN DIRECTION_VECTORS :
                                       StepTo(n, v) \in DOMAIN dist}})]
    IN IF more = dist THEN dist ELSE Settle(graph, hms_available, weights, more)

MinCost(graph, start, goal, hms_available, weights) ==
    Settle(graph, hms_available, weights,
           [n \in TilesOf(graph.data) |-> IF n = start THEN 0 ELSE inf])[goal]

\* C2 (optimality): under the default policy, whenever astar succeeds its
\* total_cost is the least cost of a path from start to goal over the
\* edges of neighbors().
C2_Optimality ==
    (pc = "astar_done" /\ path_results[1].success)
    => path_results[1].total_cost
          = MinCost(map_cache[G7], astar_frame.start, astar_frame.goal,
                    astar_frame.hms_available, astar_frame.weights)

(***************************************************************************)
(* Claim C11: the spelling of map ids (SpecPair)                           *)
(***************************************************************************)
\* An id in canonical form: no underscore, no lower-case letter.
Canonical(map_id) ==
    \A i \in 1..Len(map_id) : map_id[i] # "_" /\ UpperChar(map_id[i]) = map_id[i]

\* Two spellings that differ at most in case and underscores.
SpelledAlike(a, b) ==
    LET la == SelectSeq(a, LAMBDA c : c # "_")
        lb == SelectSeq(b, LAMBDA c : c # "_")
    IN /\ Len(la) = Len(lb)
       /\ \A i \in 1..Len(la) : UpperChar(la[i]) = UpperChar(lb[i])

\* Two calls whose arguments differ at most in the spelling of the map ids.
SameButSpelling(first, second) ==
    /\ SpelledAlike(first.raw_from_map, second.raw_from_map)
    /\ SpelledAlike(first.raw_to_map, second.raw_to_map)
    /\ first.from_x = second.from_x /\ first.from_y = second.from_y
    /\ first.to_x = second.to_x /\ first.to_y = second.to_y
    /\ first.hms_available = second.hms_available
    /\ first.weights = second.weights
    /\ first.defeated_trainers = second.defeated_trainers

\* The map ids a plan carries.
IdsOf(plan) ==
    Range(plan.maps_traversed)
    \cup {plan.segments[k].map_id : k \in 1..Len(plan.segments)}
    \cup {plan.transitions[k].from_map : k \in 1..Len(plan.transitions)}
    \cup {plan.transitions[k].to_map : k \in 1..Len(plan.transitions)}

\* C11 (map-id canonicalisation): every key of the map cache is canonical
\* and names the graph stored under it; canonicalising a canonical id
\* changes nothing; every map id of a returned plan is canonical; and of two
\* calls in one process whose arguments differ only in the case and the
\* underscores of the map ids, the second returns the plan of the first
\* and, on the same router, is served from the cache entries the first
\* created, no entry being added.
C11_Canonicalisation ==
    /\ \A k \in DOMAIN map_cache : Canonical(k) /\ map_cache[k].map_id = k
    /\ pc # "idle" =>
          /\ _normalize_map_id(call.raw_from_map) = call.from_map
          /\ _normalize_map_id(call.from_map) = call.from_map
          /\ _normalize_map_id(call.to_map) = call.to_map
    /\ pc = "done" => \A m \in IdsOf(result) : Canonical(m)
    /\ (pc = "done" /\ Len(prev) = 1 /\ prev[1].hash_seed = hash_seed
           /\ SameButSpelling(prev[1].call, call)) =>
          /\ result = prev[1].result
          /\ call.cache_before # EmptyDict =>
                DOMAIN map_cache = DOMAIN call.cache_before

\* A second call that spells both map ids differently from the first, on
\* the router of the first, and returns a plan across three maps.
C11_Witness ==
    /\ pc = "done" /\ Len(prev) = 1 /\ prev[1].hash_seed = hash_seed
    /\ SameButSpelling(prev[1].call, call)
    /\ prev[1].call.raw_from_map # call.raw_from_map
    /\ prev[1].call.raw_to_map # call.raw_to_map
    /\ call.cache_before # EmptyDict
    /\ result.success /\ Len(result.maps_traversed) = 3

(***************************************************************************)
(* Claim C12: failures are values (Spec)                                   *)
(***************************************************************************)
\* The maps a chain of connections and warps leads to; `reached` maps an
\* id to whether it is reached.
RECURSIVE MapClosure(_)
MapClosure(reached) ==
    LET more == [m \in DOMAIN reached |->
                    \/ reached[m]
                    \/ \E n \in DOMAIN reached :
                          reached[n] /\ m \in ConnectedMaps(MapGraph(n))]
    IN IF more = reached THEN reached ELSE MapClosure(more)

Linked(a, b) ==
    MapClosure([m \in DOMAIN MapFiles \cup {a, b} |-> m = a])[b]

\* A request that cannot be served: a map without a file, a start or a
\* supplied destination coordinate off its map, or maps not linked.
FailureInput(c) ==
    \/ c.from_map \notin DOMAIN MapFiles
    \/ c.to_map \notin DOMAIN MapFiles
    \/ ~OnMap(FileOf(c.from_map), <<c.from_x, c.from_y>>)
    \/ c.to_x # None /\ Val(c.to_x) \notin 0..(FileOf(c.to_map).width - 1)
    \/ c.to_y # None /\ Val(c.to_y) \notin 0..(FileOf(c.to_map).height - 1)
    \/ ~Linked(c.from_map, c.to_map)

C13_NoMapSequence ==
    (pc = "done" /\ call.from_map # call.to_map
        /\ ~Linked(call.from_map, call.to_map)) =>
       /\ ~result.success
       /\ result.maps_traversed = <<call.from_map>>

(***************************************************************************)
(* Claims C14 and C16: the shape of a cross-map plan (Spec)                *)
(***************************************************************************)
\* C14 (partial plan on failure): when the plan of a map sequence fails at
\* its i-th map (counting from 0: no exit to the next map, or the search
\* on that map fails), the returned plan has success = false, its segments
\* are exactly the plans of the i maps before it, in order, each with the
\* moves astar returned for it, and its maps_traversed is the prefix of the
\* map sequence up to and including the failing map.
C14_PartialPlan ==
    (pc = "done" /\ build # NoFrame /\ ~result.success) =>
       /\ Len(result.segments) = build.i
       /\ \A k \in 1..build.i :
             /\ path_results[k].success
             /\ result.segments[k] = [map_id |-> build.map_sequence[k],
                                      moves |-> path_results[k].moves]
       /\ Len(result.maps_traversed) = build.i + 1
       /\ \A k \in 1..(build.i + 1) :
             result.maps_traversed[k] = build.map_sequence[k]

\* A plan that fails on its third map after two segments, one with moves.
C14_Witness ==
    /\ pc = "done" /\ build # NoFrame /\ ~result.success
    /\ build.i = 2 /\ Len(build.map_sequence) = 3
    /\ \E k \in 1..2 : result.segments[k].moves # <<>>

\* C16 (plan structure): in every successful plan maps_traversed starts
\* with the source map and ends with the destination map (both in
\* canonical form), segments has one entry per map of maps_traversed in
\* the same order, and transitions has len(maps_traversed) - 1 entries,
\* the i-th leading from maps_traversed[i] to maps_traversed[i + 1].
C16_PlanStructure ==
    (pc = "done" /\ result.success) =>
       LET maps == result.maps_traversed IN
       /\ maps # <<>>
       /\ maps[1] = call.from_map /\ SpelledAlike(maps[1], call.raw_from_map)
       /\ maps[Len(maps)] = call.to_map
       /\ SpelledAlike(maps[Len(maps)], call.raw_to_map)
       /\ Len(result.segments) = Len(maps)
       /\ \A k \in 1..Len(maps) : result.segments[k].map_id = maps[k]
       /\ Len(result.transitions) = Len(maps) - 1
       /\ \A k \in 1..(Len(maps) - 1) :
             /\ result.transitions[k].from_map = maps[k]
             /\ result.transitions[k].to_map = maps[k + 1]

\* A successful plan across three maps.
C16_Witness ==
    /\ pc = "done" /\ result.success
    /\ Len(result.maps_traversed) = 3 /\ Len(result.transitions) = 2

(***************************************************************************)
(* Claim C15: the iteration cap (SpecCapped)                               *)
(***************************************************************************)
\* C15 (bounded search): astar never pops more than max_iterations nodes;
\* the loop of reconstruct_path ends from every node the search has
\* reached; nodes_explored <= max_iterations in every result; and when the
\* search stops with nodes still in the open set and the goal not
\* reached, the result has success = false and nodes_explored =
\* max_iterations.
C15_BoundedSearch ==
    /\ astar_frame # NoFrame =>
          /\ astar_frame.iterations <= astar_frame.max_iterations
          /\ \A n \in DOMAIN astar_frame.g_score :
                ReconstructTerminates(astar_frame.came_from, n)
    /\ pc = "astar_done" =>
          LET r == path_results[Len(path_results)] IN
          /\ r.nodes_explored <= call.max_iterations
          /\ (~r.success /\ astar_frame # NoFrame /\ astar_frame.open_set # {}) =>
                r.nodes_explored = call.max_iterations

\* A search between two in-bounds tiles stopped by a cap of at least 3.
C15_Witness ==
    /\ pc = "astar_done" /\ astar_frame # NoFrame
    /\ ~path_results[Len(path_results)].success
    /\ call.max_iterations >= 3
    /\ path_results[Len(path_results)].nodes_explored = call.max_iterations

(***************************************************************************)
(* Claim C17: concurrent callers (SpecThreads)                             *)
(***************************************************************************)
\* C17 (concurrent callers): a find_path call that runs while another
\* thread calls find_path on the same router, the two interleaved at any
\* step, returns the plan the same request returned when it was served
\* alone.
C17_ConcurrentCallers ==
    \A k \in 2..Len(prev) :
        ArgsOf(prev[k].call) = ArgsOf(prev[1].call) =>
            prev[k].result = prev[1].result

(***************************************************************************)
(* Claims C18 and C19: the cached maps and their vision zones (SpecPair)   *)
(***************************************************************************)
\* C18 (immutable maps): no step changes a MapGraph that is in the cache
\* of the router: its dimensions, connections, warps, trainers and
\* vision-zone set stay as they were when it was cached, and the entry is
\* never replaced, for as long as the router lives.
C18_ImmutableMaps ==
    [][\A k \in DOMAIN map_cache \cap DOMAIN map_cache' :
          map_cache'[k] = map_cache[k]]_vars

\* C19 (transient vision field): while a call searches a map, the vision
\* zones the graph consults are exactly the projection of the map's NPCs
\* that are not in the call's defeated set, whatever the policy; no tile is
\* a vision tile because of an earlier call.
C19_TransientVision ==
    pc \in {"single_astar", "build_astar"} =>
        map_cache[astar_frame.graph].trainer_zones
            = VisionField(astar_frame.graph, call.defeated_trainers)

(***************************************************************************)
(* Claim C20: the weights behind the two flags (SpecFlags)                 *)
(***************************************************************************)
\* C20 (facade policy translation): every search started through
\* pathfinding.find_path or NavigationAgent._find_path runs with grass
\* cost 5.0 when avoid_grass is true and 1.0 when it is false, and with
\* vision cost 100.0 when avoid_trainers is true and 1.0 when it is false,
\* in all four combinations of the flags.
C20_FacadePolicy ==
    pc \in {"single_astar", "build_astar"} =>
        /\ astar_frame.weights.grass = IF call.avoid_grass THEN 10 ELSE 2
        /\ astar_frame.weights.trainer_adjacent =
              IF call.avoid_trainers THEN 200 ELSE 2

(***************************************************************************)
(* Claim C21: the region search (Spec)                                     *)
(***************************************************************************)
\* The least number of hops from the maps of `reached` to b, given that
\* `n` hops led to `reached`; -1 when no chain of hops leads to b.
RECURSIVE HopsFrom(_, _, _)
HopsFrom(reached, b, n) ==
    LET more == [m \in DOMAIN reached |->
                    \/ reached[m]
                    \/ \E o \in DOMAIN reached :
                          reached[o] /\ m \in ConnectedMaps(MapGraph(o))]
    IN IF reached[b] THEN n
       ELSE IF more = reached THEN -1
       ELSE HopsFrom(more, b, n + 1)

Hops(a, b) == HopsFrom([m \in DOMAIN MapFiles \cup {a, b} |-> m = a], b, 0)

\* C21 (region BFS): the queue of _find_map_sequence never holds a map
\* twice and holds only visited maps, so the search ends after at most one
\* turn per map; the sequence it returns starts at the source map, ends at
\* the destination map, joins each consecutive pair by a connection or a
\* warp of the earlier map, visits no map twice and has the least possible
\* number of hops; and it returns the empty sequence exactly when no chain
\* of connections and warps leads to the destination.
C21_RegionBFS ==
    /\ pc = "bfs" =>
          /\ \A i, j \in 1..Len(bfs.queue) :
                bfs.queue[i].map = bfs.queue[j].map => i = j
          /\ \A i \in 1..Len(bfs.queue) : bfs.queue[i].map \in bfs.visited
          /\ bfs.visited \subseteq DOMAIN MapFiles \cup {call.from_map, call.to_map}
    /\ (pc \in {"build", "build_astar", "build_ret"}
         \/ (pc = "done" /\ build # NoFrame)) =>
          LET seq == build.map_sequence IN
          /\ seq[1] = call.from_map
          /\ seq[Len(seq)] = call.to_map
          /\ \A k \in 1..(Len(seq) - 1) :
                seq[k + 1] \in ConnectedMaps(MapGraph(seq[k]))
          /\ \A i, j \in 1..Len(seq) : seq[i] = seq[j] => i = j
          /\ Len(seq) - 1 = Hops(call.from_map, call.to_map)
    /\ (pc = "done" /\ call.from_map # call.to_map) =>
          (build = NoFrame <=> Hops(call.from_map, call.to_map) = -1)

\* The search from MA, which is joined to MB by a connection and a warp
\* both ways, has returned the one-hop sequence to MD.
C21_Witness ==
    /\ pc = "build" /\ build.i = 0
    /\ call.from_map = MA /\ call.to_map = MD
    /\ build.map_sequence = <<MA, MD>>

(***************************************************************************)
(* Claims C22, C23 and C30: where the next segment starts (Spec)           *)
(***************************************************************************)
\* Whether a warp of the map leads to `target`: _find_exit_to then takes
\* the first such warp, and otherwise the first connection to `target`.
LeavesByWarp(map_id, target) ==
    \E i \in 1..Len(FileOf(map_id).warps) :
        _normalize_map_id(FileOf(map_id).warps[i].destination_map) = target

\* The connection of the map that the route crosses towards `target`.
CrossedConnection(map_id, target) ==
    FileOf(map_id).connections[FirstIndex(ConnectionsTo(MapGraph(map_id), target), 1)]

\* C22 (connection entry coordinate): for every recorded transition whose
\* exit is a connection with offset k of the map left, the entry is: after
\* a north exit (x_exit, 0), (x_exit + k, height - 1) of the map entered;
\* after a south exit, (x_exit + k, 0); after an east exit (x, y_exit),
\* (0, y_exit + k); after a west exit, (width - 1, y_exit + k).
C22_ConnectionEntry ==
    build # NoFrame =>
      \A n \in 1..Len(build.transitions) :
        LET t == build.transitions[n]
            crossed == CrossedConnection(t.from_map, t.to_map)
            entered == FileOf(t.to_map)
        IN ~LeavesByWarp(t.from_map, t.to_map) =>
             t.to_pos =
               CASE crossed.direction = "NORTH" ->
                      <<t.from_pos[1] + crossed.offset, entered.height - 1>>
                 [] crossed.direction = "SOUTH" ->
                      <<t.from_pos[1] + crossed.offset, 0>>
                 [] crossed.direction = "EAST" ->
                      <<0, t.from_pos[2] + crossed.offset>>
                 [] OTHER ->
                      <<entered.width - 1, t.from_pos[2] + crossed.offset>>

\* The warp _find_exit_to takes towards `target`: the first one leading there.
TakenWarp(map_id, target) ==
    FileOf(map_id).warps[
        FirstIndex([i \in 1..Len(FileOf(map_id).warps) |->
                      _normalize_map_id(FileOf(map_id).warps[i].destination_map)
                         = target], 1)]

\* C23 (teleport entry coordinate): for every recorded transition whose
\* exit is a warp to the next map, to_pos is the position of the warp of
\* the next map that the exit warp's destination_warp_id names (warps are
\* numbered from 0 in file order).
C23_TeleportEntry ==
    build # NoFrame =>
      \A n \in 1..Len(build.transitions) :
        LET t == build.transitions[n]
            id == TakenWarp(t.from_map, t.to_map).destination_warp_id
            landing == FileOf(t.to_map).warps[id + 1]
        IN (LeavesByWarp(t.from_map, t.to_map)
              /\ id + 1 \in 1..Len(FileOf(t.to_map).warps)) =>
             t.to_pos = <<landing.x, landing.y>>

(***************************************************************************)
(* Claim C24: the tile cost table (SpecTiles)                              *)
(***************************************************************************)
\* The cost table: inf stands for impossible, costs are in halves.
TableCost(tile_type, direction, hms, w) ==
    CASE tile_type = "BLOCKED" -> inf
      [] tile_type \in {"WALKABLE", "WARP"} -> w.walkable
      [] tile_type = "GRASS" -> w.grass
      [] tile_type = "WATER" -> IF "SURF" \in hms THEN w.water ELSE inf
      [] tile_type = "CUT_TREE" -> IF "CUT" \in hms THEN w.cut_tree ELSE inf
      [] tile_type = "STRENGTH_BOULDER" ->
            IF "STRENGTH" \in hms THEN w.strength_boulder ELSE inf
      [] tile_type = "LEDGE_DOWN" -> IF direction = "DOWN" THEN 2 ELSE inf
      [] tile_type = "LEDGE_LEFT" -> IF direction = "LEFT" THEN 2 ELSE inf
      [] tile_type = "LEDGE_RIGHT" -> IF direction = "RIGHT" THEN 2 ELSE inf
      [] OTHER -> w.trainer_adjacent

\* C24 (tile cost table): for every tile class, HM list, policy and move
\* direction, the cost of the edge neighbors() yields into a tile of that
\* class is the table's: Blocked impossible; Walkable and Teleport
\* policy.walkable; Grass policy.grass; Water, CutObstacle, PushObstacle
\* the policy value with Surf, Cut, Strength in the HMs and impossible
\* without; a ledge impossible unless the move follows its arrow and then
\* 1.0; VisionProjected the policy's vision cost.
C24_TileCostTable ==
    pc = "tile_done" =>
        result.cost = TableCost(call.tile_type, call.direction,
                                UpperHMs(call.hms_available), call.weights)

(***************************************************************************)
(* The line-of-sight engine on its own: get_all_trainer_zones applied to   *)
(* NPC lists, defeated sets, map sizes and collision checks                *)
(***************************************************************************)
\* Trainer dicts as a map file lists them: lower-case and mixed-case
\* facings, a missing id, a vision range of 0, two NPCs with one id, rays
\* that cross and rays that face the edge of a 3x3 map.
NPCs ==
    {Trainer(<<"A", 1>>, 1, 0, "DOWN", 4),
     Trainer(<<"B", 1>>, 0, 1, "right", 2),
     Trainer(NoId, 2, 2, "UP", 1),
     Trainer(<<"A", 1>>, 0, 2, "RIGHT", 4),
     Trainer(<<"C", 1>>, 1, 1, "LEFT", 0),
     Trainer(<<"B", 2>>, 2, 1, "LEFT", 3),
     Trainer(<<"D", 1>>, 1, 2, "DOWN", 2),
     Trainer(<<"D", 2>>, 1, 2, "Sideways", 2)}

NPCLists ==
    {<<>>} \cup {<<a>> : a \in NPCs} \cup {<<a, b>> : a, b \in NPCs}

DefeatedSets == SUBSET {<<"A", 1>>, <<"B", 1>>, <<"trainer", 0>>}

\* width and height: 0 is the default of the parameters.
MapSizes == {0, 3}

CollisionChecks == {NoCollisionCheck, {<<1, 1>>}, {<<1, 2>>, <<2, 0>>}}

VisionCall ==
    /\ pc = "idle"
    /\ \E trainers \in NPCLists, defeated \in DefeatedSets,
          w \in MapSizes, h \in MapSizes,
          collision_check \in CollisionChecks :
          /\ call' = [trainers |-> trainers, defeated_trainers |-> defeated,
                      width |-> w, height |-> h,
                      collision_check |-> collision_check]
          /\ result' = [zones |-> get_all_trainer_zones(trainers, defeated,
                                      w, h, collision_check)]
    /\ pc' = "vision_done"
    /\ UNCHANGED <<hash_seed, parked, map_cache, bfs, build, astar_frame,
                   path_results, prev>>

\* The caller defeats one of the NPCs that still project and asks again,
\* with that NPC's id added to the defeated set.
VisionCallAfterDefeat ==
    /\ pc = "vision_done"
    /\ \E i \in 1..Len(call.trainers) :
          LET id == TrainerFromDict(call.trainers[i], i - 1).trainer_id IN
          /\ id \notin call.defeated_trainers
          /\ call' = [call EXCEPT !.defeated_trainers = @ \cup {id}]
          /\ result' = [zones |-> get_all_trainer_zones(call.trainers,
                                      call.defeated_trainers \cup {id},
                                      call.width, call.height,
                                      call.collision_check)]
    /\ prev' = [call |-> call, zones |-> result.zones]
    /\ pc' = "vision_again"
    /\ UNCHANGED <<hash_seed, parked, map_cache, bfs, build, astar_frame,
                   path_results>>

NextVision ==
    \/ VisionCall
    \/ VisionCallAfterDefeat

SpecVision == Init /\ [][NextVision]_vars

(***************************************************************************)
(* C25                                                                     *)
(***************************************************************************)
\* The i-th NPC of the call as Trainer.from_dict reads it.
NPCAt(i) == TrainerFromDict(call.trainers[i], i - 1)

\* The tile k steps ahead of an NPC.
Ahead(npc, k) ==
    <<npc.x + k * DIRECTION_VECTORS[npc.facing][1],
      npc.y + k * DIRECTION_VECTORS[npc.facing][2]>>

\* A tile is inside a width x height map.
InsideMap(tile, w, h) ==
    /\ 0 <= tile[1] /\ tile[1] < w
    /\ 0 <= tile[2] /\ tile[2] < h

\* A tile is inside the bounds that are given: a width or height of 0 is
\* no bound.
InsideGiven(tile, w, h) ==
    /\ w > 0 => (0 <= tile[1] /\ tile[1] < w)
    /\ h > 0 => (0 <= tile[2] /\ tile[2] < h)

\* The tiles 1..vision_range steps ahead of an NPC up to, and without, the
\* first one that is outside the map or reported by the collision check.
RayInMap(npc) ==
    {Ahead(npc, k) : k \in {n \in 1..npc.vision_range :
        \A j \in 1..n : /\ InsideMap(Ahead(npc, j), call.width, call.height)
                        /\ Ahead(npc, j) \notin call.collision_check}}

\* The same ray, stopped only by the bounds that are given.
RayInGiven(npc) ==
    {Ahead(npc, k) : k \in {n \in 1..npc.vision_range :
        \A j \in 1..n : /\ InsideGiven(Ahead(npc, j), call.width, call.height)
                        /\ Ahead(npc, j) \notin call.collision_check}}

Undefeated == {i \in 1..Len(call.trainers) :
                  NPCAt(i).trainer_id \notin call.defeated_trainers}

\* C25 as stated: the result is exactly the union of the rays of the
\* undefeated NPCs, each stopped before the first tile outside the map or
\* reported by the collision check, and every tile of it is inside the map.
C25_VisionProjection ==
    pc \in {"vision_done", "vision_again"} =>
        /\ result.zones = UNION {RayInMap(NPCAt(i)) : i \in Undefeated}
        /\ \A tile \in result.zones : InsideMap(tile, call.width, call.height)

\* C25, amended: the result is exactly the union of the rays of the
\* undefeated NPCs, each stopped before the first tile outside a given
\* bound (a width or height of 0 bounds nothing) or reported by the
\* collision check; every tile of it lies 1..vision_range steps straight
\* ahead of an undefeated NPC, and inside the map when both sizes are given.
C25_VisionProjectionGivenBounds ==
    pc \in {"vision_done", "vision_again"} =>
        /\ result.zones = UNION {RayInGiven(NPCAt(i)) : i \in Undefeated}
        /\ \A tile \in result.zones :
              \E i \in Undefeated :
                 \E k \in 1..NPCAt(i).vision_range : tile = Ahead(NPCAt(i), k)
        /\ (call.width > 0 /\ call.height > 0) =>
              \A tile \in result.zones : InsideMap(tile, call.width, call.height)

\* Two NPCs on a 3x3 map, the second defeated, the ray of the first cut
\* short by the collision check.
C25_Witness ==
    /\ pc = "vision_done"
    /\ call.trainers = <<Trainer(<<"A", 1>>, 1, 0, "DOWN", 4),
                         Trainer(<<"B", 1>>, 0, 1, "right", 2)>>
    /\ call.defeated_trainers = {<<"B", 1>>}
    /\ call.width = 3 /\ call.height = 3
    /\ call.collision_check = {<<1, 2>>, <<2, 0>>}
    /\ result.zones = {<<1, 1>>}


(***************************************************************************)
(* C26                                                                     *)
(***************************************************************************)
\* The id added to the defeated set by the second call.
NewlyDefeated == call.defeated_trainers \ prev.call.defeated_trainers

\* The tiles projected, before the second call, by an NPC bearing the newly
\* defeated id and by no other undefeated NPC.
OnlyTheirs ==
    {tile \in prev.zones :
        \A i \in Undefeated : tile \notin RayInGiven(NPCAt(i))}

\* C26 as stated: adding the id of an undefeated NPC to the defeated set
\* leaves a proper subset of the projected set.
C26_StrictlyShrinks ==
    pc = "vision_again" =>
        /\ result.zones \subseteq prev.zones
        /\ result.zones # prev.zones

\* C26, amended: adding the id of an undefeated NPC to the defeated set
\* never adds a tile, and removes exactly the tiles that only NPCs bearing
\* that id projected; the set is a proper subset exactly when there is such
\* a tile.
C26_ShrinksByOwnTiles ==
    pc = "vision_again" =>
        /\ result.zones \subseteq prev.zones
        /\ prev.zones \ result.zones = OnlyTheirs
        /\ (result.zones # prev.zones) <=> (OnlyTheirs # {})

\* Two NPCs whose rays cross at (1,1); defeating the first removes the rest
\* of its ray and leaves the crossing tile projected.
C26_Witness ==
    /\ pc = "vision_again"
    /\ call.trainers = <<Trainer(<<"A", 1>>, 1, 0, "DOWN", 4),
                         Trainer(<<"B", 1>>, 0, 1, "right", 2)>>
    /\ NewlyDefeated = {<<"A", 1>>}
    /\ call.width = 3 /\ call.height = 3
    /\ call.collision_check = NoCollisionCheck
    /\ prev.zones = {<<1, 1>>, <<1, 2>>, <<2, 1>>}
    /\ result.zones = {<<1, 1>>, <<2, 1>>}


(***************************************************************************)
(* C27                                                                     *)
(***************************************************************************)
\* C27 (queue discipline): while astar runs, every node of the open set that
\* a relaxation put there has a queue entry keyed by its current f (the
\* entry of the start is pushed with key 0 before the loop), and the entry
\* the next pop takes is that of a node whose current f is the least among
\* the open nodes.
C27_QueueDiscipline ==
    (pc = "astar" /\ AstarRunning(astar_frame)) =>
        LET fr == astar_frame
            current == HeapMin(fr.open_set)[3]
        IN /\ \A n \in fr.open_set_lookup \ {fr.start} :
                 \E e \in fr.open_set : e[3] = n /\ e[1] = fr.f_score[n]
           /\ \A n \in fr.open_set_lookup : fr.f_score[current] <= fr.f_score[n]


(***************************************************************************)
(* find_nearest() on the loaded grid G7                                    *)
(***************************************************************************)
\* The default of find_nearest's max_iterations.
DEFAULT_NEAREST_ITERATIONS == 5000

\* Lines 215-225: the locals of find_nearest before its loop.  There is no
\* bounds check and no f_score; `condition` is the set of tiles for which
\* the predicate returns True.
NearestFrame(start, condition, hms_available, weights, max_iterations) ==
    [start |-> start,
     condition |-> condition,
     hms_available |-> hms_available,
     weights |-> weights,
     max_iterations |-> max_iterations,
     counter |-> 0,
     open_set |-> {<<0, 0, start>>},
     open_set_lookup |-> {start},
     came_from |-> EmptyDict,
     g_score |-> Put(EmptyDict, start, 0),
     hm_used_at |-> EmptyDict,
     iterations |-> 0]

\* A relaxation whose entries all carry the key 0: the queue is first in,
\* first out.
RelaxNearest_fifo(fr, current, edge) ==
    LET neighbor == edge.destination
        tentative_g == fr.g_score[current] + edge.cost
        known == IF neighbor \in DOMAIN fr.g_score THEN fr.g_score[neighbor] ELSE inf
        lowered == [fr EXCEPT !.came_from = Put(fr.came_from, neighbor, current),
                              !.g_score = Put(fr.g_score, neighbor, tentative_g)]
    IN IF tentative_g >= known THEN fr
       ELSE IF neighbor \in fr.open_set_lookup THEN lowered
       ELSE [lowered EXCEPT !.counter = fr.counter + 1,
                            !.open_set = fr.open_set
                                \cup {<<0, fr.counter + 1, neighbor>>},
                            !.open_set_lookup = fr.open_set_lookup \cup {neighbor}]

\* Lines 252-268: the body of the loop over the edges of `current`; the
\* entry pushed is keyed by tentative_g.
RelaxNearest(fr, current, edge) ==
    LET neighbor == edge.destination
        tentative_g == fr.g_score[current] + edge.cost
        known == IF neighbor \in DOMAIN fr.g_score THEN fr.g_score[neighbor] ELSE inf
        lowered == [fr EXCEPT !.came_from = Put(fr.came_from, neighbor, current),
                              !.g_score = Put(fr.g_score, neighbor, tentative_g),
                              !.hm_used_at = IF edge.requires_hm # NoHM
                                             THEN Put(fr.hm_used_at, neighbor,
                                                      edge.requires_hm)
                                             ELSE fr.hm_used_at]
    IN IF tentative_g >= known THEN fr
       ELSE IF neighbor \in fr.open_set_lookup THEN lowered
       ELSE [lowered EXCEPT !.counter = fr.counter + 1,
                            !.open_set = fr.open_set
                                \cup {<<tentative_g, fr.counter + 1, neighbor>>},
                            !.open_set_lookup = fr.open_set_lookup \cup {neighbor}]

RECURSIVE RelaxAllNearest(_, _, _, _)
RelaxAllNearest(fr, current, edges, k) ==
    IF k > Len(edges) THEN fr
    ELSE RelaxAllNearest(RelaxNearest(fr, current, edges[k]), current, edges, k + 1)

\* The predicates: nothing, one tile, two far corners, a watched tile next
\* to a plain one further off, tiles on and off the grid, only tiles off it.
Conditions ==
    {{},
     {<<3, 2>>},
     {<<0, 0>>, <<6, 4>>},
     {<<1, 1>>, <<0, 4>>, <<5, 2>>},
     {<<3, 5>>, <<0, 2>>, <<6, 0>>},
     {<<7, 7>>, <<0 - 1, 2>>}}

\* The iteration caps of the calls: none, a few turns, the default.
NearestCaps == {0, 3, DEFAULT_NEAREST_ITERATIONS}

\* find_nearest(graph, start, condition, weights=..., max_iterations=...)
\* from three columns and three rows (row 5 is off G7).
NearestCall ==
    /\ pc = "idle"
    /\ path_results = <<>>
    /\ \E sx \in {0, 3, 6}, sy \in {0, 2, 5}, condition \in Conditions,
          weights \in {TileWeights, SeekWeights}, cap \in NearestCaps :
          /\ call' = [hms_available |-> <<>>, weights |-> weights,
                      max_iterations |-> cap]
          /\ astar_frame' = NearestFrame(<<sx, sy>>, condition, <<>>, weights, cap)
                               @@ [graph |-> G7]
    /\ pc' = "nearest"
    /\ UNCHANGED <<hash_seed, parked, map_cache, bfs, build, path_results,
                   result, prev>>

\* One turn of the loop of find_nearest (lines 226-268), or its exit with
\* the failure of lines 270-273.
NearestStep ==
    /\ pc = "nearest"
    /\ LET fr == astar_frame
           current == HeapMin(fr.open_set)[3]
           popped == AstarPop(fr)
       IN IF ~AstarRunning(fr)
          THEN /\ path_results' = Append(path_results, PathFailure(fr.iterations))
               /\ astar_frame' = fr
               /\ pc' = "nearest_done"
          ELSE IF current \in fr.condition
          THEN /\ path_results' =
                     Append(path_results, AstarSuccess(popped, current, HmOrder(hash_seed)))
               /\ astar_frame' = popped
               /\ pc' = "nearest_done"
          ELSE /\ astar_frame' =
                     RelaxAllNearest(popped, current,
                                     neighbors(map_cache[fr.graph], current,
                                               fr.hms_available, fr.weights), 1)
               /\ UNCHANGED <<path_results, pc>>
    /\ UNCHANGED <<hash_seed, parked, map_cache, call, bfs, build, result, prev>>

NextNearest ==
    \/ NearestCall
    \/ NearestStep

SpecNearest == InitAstar /\ [][NextNearest]_vars

(***************************************************************************)
(* C28                                                                     *)
(***************************************************************************)
\* The least cost from the start of the search to every tile of the grid
\* over the edges of neighbors().
NearestDist ==
    Settle(map_cache[G7], astar_frame.hms_available, astar_frame.weights,
           [n \in TilesOf(map_cache[G7].data) \cup {astar_frame.start} |->
               IF n = astar_frame.start THEN 0 ELSE inf])

\* The tiles that satisfy the predicate and can be reached from the start.
ReachableMatches ==
    {t \in astar_frame.condition \cap DOMAIN NearestDist : NearestDist[t] < inf}

\* C28 (nearest match): a successful find_nearest ends on a tile that
\* satisfies the predicate, at a cost that is the least over all reachable
\* tiles satisfying it, with no move when the start satisfies it; it fails
\* only when no satisfying tile can be reached or the iterations ran out.
C28_NearestMatch ==
    pc = "nearest_done" =>
        LET r == path_results[1]
            fr == astar_frame
        IN IF r.success
           THEN /\ r.path[Len(r.path)] \in ReachableMatches
                /\ \A t \in ReachableMatches : r.total_cost <= NearestDist[t]
                /\ r.total_cost = NearestDist[r.path[Len(r.path)]]
                /\ fr.start \in fr.condition => (r.moves = <<>> /\ r.path = <<fr.start>>)
           ELSE \/ ReachableMatches = {}
                \/ fr.iterations = fr.max_iterations

\* From (3,2) with the second zone set, the matches (1,1) and (5,2) are
\* watched and two and three steps off; the match found is (0,4), seven
\* plain steps away.
C28_Witness ==
    /\ pc = "nearest_done"
    /\ astar_frame.start = <<3, 2>>
    /\ astar_frame.condition = {<<1, 1>>, <<0, 4>>, <<5, 2>>}
    /\ astar_frame.weights = TileWeights
    /\ map_cache[G7].trainer_zones # {}
    /\ path_results[1].success
    /\ path_results[1].path[8] = <<0, 4>>
    /\ path_results[1].total_cost = 14
    /\ Len(path_results[1].moves) = 7


(***************************************************************************)
(* astar() and find_nearest() side by side on the loaded grid G7           *)
(***************************************************************************)
NextSearch ==
    \/ AstarCall
    \/ AstarStep
    \/ NearestCall
    \/ NearestStep

SpecSearch == InitAstar /\ [][NextSearch]_vars

(***************************************************************************)
(* C29                                                                     *)
(***************************************************************************)
\* What neighbors() charges for entering a tile of G7 under the policy and
\* the vision field of the search.
EntryCost(tile) ==
    get_tile_weight(get_tile_type(map_cache[G7], tile[1], tile[2]),
                    astar_frame.hms_available, astar_frame.weights)

\* The entry costs of path[2..], added up.
PathCost(path) ==
    SumSeq([i \in 1..Len(path) - 1 |-> EntryCost(path[i + 1])])

\* C29 (cost consistency): in every successful astar or find_nearest result
\* the path begins at the start, ends at the goal or the matched tile,
\* repeats no node, goes by 4-adjacent steps with one move per step, and
\* total_cost is the sum of the entry costs of the tiles after the first.
C29_CostConsistency ==
    (pc \in {"astar_done", "nearest_done"} /\ path_results[1].success) =>
        LET r == path_results[1]
            fr == astar_frame
        IN /\ r.path # <<>>
           /\ r.path[1] = fr.start
           /\ IF pc = "astar_done" THEN r.path[Len(r.path)] = fr.goal
              ELSE r.path[Len(r.path)] \in fr.condition
           /\ \A i, j \in 1..Len(r.path) : r.path[i] = r.path[j] => i = j
           /\ \A i \in 1..Len(r.path) - 1 : Adjacent(r.path[i], r.path[i + 1])
           /\ Len(r.moves) = Len(r.path) - 1
           /\ Walk(fr.start, r.moves) = SubSeq(r.path, 2, Len(r.path))
           /\ r.total_cost = PathCost(r.path)


\* The search of C2 from (6,2) to (0,1): eleven moves, ten onto plain tiles
\* and one onto a watched tile, at a total cost of 110.0.
C29_Witness ==
    /\ pc = "astar_done"
    /\ path_results[1].success
    /\ astar_frame.start = <<6, 2>>
    /\ astar_frame.goal = <<0, 1>>
    /\ Len(path_results[1].moves) = 11
    /\ Cardinality(Range(path_results[1].path) \cap map_cache[G7].trainer_zones) = 1
    /\ path_results[1].total_cost = 220


(***************************************************************************)
(* C30                                                                     *)
(***************************************************************************)
\* C30 (entry in bounds): every transition recorded while a cross-map plan
\* is built enters a map that has tiles at a coordinate inside it:
\* 0 <= x < width and 0 <= y < height of the map entered.
C30_EntryInBounds ==
    build # NoFrame =>
      \A n \in 1..Len(build.transitions) :
        LET t == build.transitions[n]
            entered == FileOf(t.to_map)
        IN (entered.width > 0 /\ entered.height > 0) => OnMap(entered, t.to_pos)


====
